---- MODULE Spec2Model ----
(***************************************************************************)
(* Verification model of the superglue core utilities:                     *)
(*   - the in-process job Queue (enqueue / processQueue),                  *)
(*   - the Request Executor callEndpoint (pagination loop, variable        *)
(*     validation, response aggregation),                                  *)
(*   - the Transform Synthesizer prepareTransform / generateMapping.       *)
(* Each component has its own specification over the shared variables:     *)
(* the variables of the other components stay at their initial value.      *)
(***************************************************************************)
EXTENDS Integers, Sequences, FiniteSets, TLC

(***************************************************************************)
(* Bounds of the model.                                                    *)
(***************************************************************************)
\* number of enqueue calls explored on one Queue instance
MaxEnqueues == 5

\* job ids used by the callers of enqueue
Ids == {"j1", "j2", "j3"}

\* requests an arbitrary server answers in one callEndpoint run
MaxRequests == 3

\* longest array an arbitrary server returns as a page
MaxPageLen == 2

\* most items a slicing server holds (besides the totals next to the loop ceiling)
MaxItems == 5

\* elements an arbitrary server puts in its pages
Items == {1, 2}

\* how many times a caller of prepareEndpoint passes the returned log on in a
\* short session and in a long one, and how many times it starts anew
MaxChain == 2
LongChain == 12
MaxRestarts == 1

\* callEndpoint's loop ceiling: `loopCounter <= 500`
LoopCeiling == 500

\* the page size used for `limit` and for the offset step when pageSize is
\* unset or 0: `endpoint.pagination?.pageSize || 50`
DefaultPageSize == 50

VARIABLES
    \* ---- dataPath navigation of one document ---------------------------
    document,       \* the parsed document: response.data / parseFile's result
    dataPath,       \* the dataPath, split at the dots (empty: no dataPath)
    fileNav,        \* what processFile's navigation gave
    callNav,        \* what callEndpoint's navigation gave
    \* ---- the LLM configuration -----------------------------------------
    env,            \* process.env: variable name -> value
    llmClient,      \* what createLLMClient() passed to `new OpenAI(...)`
    chosenModel,    \* what getModelName(schemaGeneration) returned
    \* ---- the LLM client ------------------------------------------------
    modelName,      \* what getModelName() returns, as its characters
    \* ---- one invocation of generateSchema ------------------------------
    spc,            \* position: "idle", "attempt", "llm" (in `await create`), "done"
    retryCount,     \* generateSchema's retryCount
    schemaMessages, \* generateSchema's messages array
    schemaCalls,    \* history: the completion requests made so far
    schemaReplies,  \* history: the completions received so far
    schemaAttempts, \* history: "ok" or the error of each attempt so far
    schemaResult,   \* what generateSchema returned or threw
    \* ---- invocations of prepareEndpoint by one caller ------------------
    epc,            \* position: "idle", "entry", "documentation" (in `await
                    \* getDocumentation`), "llm", "returned", "thrown"
    endpointInput,  \* the ApiInput argument
    session,        \* the caller and the LLM of this run
    previousMessages, \* the array the caller passed as previousMessages
    lastError,      \* the lastError argument
    apiConfig,      \* prepareEndpoint's apiCallConfig
    apiMessages,    \* generateApiConfig's messages array
    apiCalls,       \* history: the completion requests made so far
    chain,          \* how many times in a row the caller passed the returned log on
    restarts,       \* how many times the caller started anew
    ids,            \* history: the ids of the configs returned so far
    apiResult,      \* what the last invocation returned or threw
    \* ---- Queue instance ------------------------------------------------
    queue,          \* Queue.queue: Process[] (FIFO of {id, task})
    isProcessing,   \* Queue.isProcessing
    jobSet,         \* Queue.jobSet: Set<string>
    workers,        \* activations of processQueue suspended at `await job.task()`
    calls,          \* history: the enqueue calls made so far, in call order
    started,        \* history: tasks invoked by the worker, in invocation order
    settled,        \* history: tasks whose promise settled, with the outcome
    \* ---- one callEndpoint invocation ------------------------------------
    endpoint,       \* the ApiConfig argument
    payload,        \* the payload argument
    credentials,    \* the credentials argument
    server,         \* the remote server behind callAxios
    pc,             \* position: "loop" (at the while test), "awaiting"
                    \* (in `await callAxios`), "returned", "threw"
    allResults,     \* let allResults = []
    page,           \* let page = 1
    offset,         \* let offset = 0
    hasMore,        \* let hasMore = true
    loopCounter,    \* let loopCounter = 0
    response,       \* const response = await callAxios(...), of the latest iteration
    requests,       \* history: the calls of callAxios, with their requestVars
    pages,          \* history: responseData extracted in each completed iteration
    outcome,        \* what the invocation returned or threw
    \* ---- one prepareTransform invocation --------------------------------
    fromCache,      \* the fromCache argument
    input,          \* the input argument (TransformInput), key -> value
    data,           \* the data argument
    cached,         \* what datastore.getTransformConfigFromRequest resolves to
    valid,          \* the expressions whose application to data validates
                    \* against input.responseSchema (applyJsonataWithValidation)
    tpc,            \* position: "entry", "lookup" (awaiting the datastore),
                    \* "attempt" (generateMapping entered), "llm" (awaiting the
                    \* completion), "done"
    retry,          \* generateMapping's retry parameter
    messages,       \* generateMapping's messages parameter
    llmCalls,       \* history: the completion requests sent, in order
    dsQueries,      \* history: number of datastore lookups
    attempts,       \* history: how each finished attempt ended
    result          \* what prepareTransform resolved or rejected with

queueVars == <<queue, isProcessing, jobSet, workers, calls, started, settled>>

callVars == <<endpoint, payload, credentials, server, pc, allResults, page,
              offset, hasMore, loopCounter, response, requests, pages, outcome>>

transformVars == <<fromCache, input, data, cached, valid, tpc, retry, messages,
                   llmCalls, dsQueries, attempts, result>>

schemaVars == <<spc, retryCount, schemaMessages, schemaCalls, schemaReplies,
                schemaAttempts, schemaResult>>

apiVars == <<epc, endpointInput, session, previousMessages, lastError, apiConfig,
             apiMessages, apiCalls, chain, restarts, ids, apiResult>>

navVars == <<document, dataPath, fileNav, callNav>>

llmVars == <<env, llmClient, chosenModel>>

synthVars == <<modelName, schemaVars, apiVars, navVars, llmVars>>

vars == <<queue, isProcessing, jobSet, workers, calls, started, settled,
          endpoint, payload, credentials, server, pc, allResults, page,
          offset, hasMore, loopCounter, response, requests, pages, outcome,
          fromCache, input, data, cached, valid, tpc, retry, messages,
          llmCalls, dsQueries, attempts, result,
          modelName, spc, retryCount, schemaMessages, schemaCalls, schemaReplies,
          schemaAttempts, schemaResult,
          epc, endpointInput, session, previousMessages, lastError, apiConfig,
          apiMessages, apiCalls, chain, restarts, ids, apiResult,
          document, dataPath, fileNav, callNav, env, llmClient, chosenModel>>

(***************************************************************************)
(* Queue                                                                   *)
(***************************************************************************)

\* enqueue's dedup test `this.jobSet.has(id)`
AlreadyQueuedNever(id) == FALSE
AlreadyQueuedIfWaiting(id) == \E i \in 1..Len(queue) : queue[i].id = id
AlreadyQueued(id) == id \in jobSet

\* `this.queue.push({ id, task })`
PushFront(q, p) == <<p>> \o q
Push(q, p) == Append(q, p)

\* `this.queue.shift()`: the job removed and the queue left behind
ShiftJob(q) == Head(q)
ShiftRest(q) == Tail(q)

\* processQueue's re-entrancy guard `if (this.isProcessing) return;`
EarlyReturnNever == FALSE
EarlyReturnAlways == TRUE
EarlyReturn == isProcessing

\* the `finally { this.jobSet.delete(job.id) }` after the awaited task,
\* reached after a fulfilled and after a rejected (caught) task alike
FinallyKeeps(js, id, st) == js
FinallyOnSuccessOnly(js, id, st) == IF st = "fulfilled" THEN js \ {id} ELSE js
Finally(js, id, st) == js \ {id}

\* a processQueue activation suspended at `await job.task()`
Pending(job) == [job |-> job, st |-> "pending"]

\* no callEndpoint invocation is in progress
CallIdle ==
    /\ endpoint = "none"
    /\ payload = "none"
    /\ credentials = "none"
    /\ server = [kind |-> "none", total |-> 0]
    /\ pc = "idle"
    /\ allResults = <<>>
    /\ page = 1
    /\ offset = 0
    /\ hasMore = TRUE
    /\ loopCounter = 0
    /\ response = [status |-> 0]
    /\ requests = <<>>
    /\ pages = <<>>
    /\ outcome = [kind |-> "none"]

\* no prepareTransform invocation
TransformIdle ==
    /\ fromCache = FALSE
    /\ input = "none"
    /\ data = "none"
    /\ cached = "none"
    /\ valid = {}
    /\ tpc = "idle"
    /\ retry = 0
    /\ messages = <<>>
    /\ llmCalls = <<>>
    /\ dsQueries = 0
    /\ attempts = <<>>
    /\ result = [kind |-> "none"]

\* no model name has been read, generateSchema and prepareEndpoint have not
\* been called
ModelIdle == modelName = <<>>
SchemaIdle ==
    /\ spc = "idle"
    /\ retryCount = 0
    /\ schemaMessages = <<>>
    /\ schemaCalls = <<>>
    /\ schemaReplies = <<>>
    /\ schemaAttempts = <<>>
    /\ schemaResult = [kind |-> "none", schema |-> [t |-> "undefined", v |-> 0], error |-> ""]
ApiIdle ==
    /\ epc = "idle"
    /\ endpointInput = [k \in {} |-> ""]
    /\ session = [replies |-> {}, errors |-> {}, length |-> 0, anew |-> 0]
    /\ previousMessages = <<>>
    /\ lastError = "null"
    /\ apiConfig = [k \in {} |-> ""]
    /\ apiMessages = <<>>
    /\ apiCalls = <<>>
    /\ chain = 0
    /\ restarts = 0
    /\ ids = {}
    /\ apiResult = [kind |-> "none", config |-> [k \in {} |-> ""], messages |-> <<>>,
                    reply |-> "", error |-> ""]
\* no document has been navigated
NavIdle ==
    /\ document = [t |-> "undefined", v |-> 0]
    /\ dataPath = <<>>
    /\ fileNav = [kind |-> "none", value |-> [t |-> "undefined", v |-> 0]]
    /\ callNav = [kind |-> "none", value |-> [t |-> "undefined", v |-> 0],
                  dataPathSuccess |-> TRUE]
\* no client has been created and no model name chosen
LlmIdle ==
    /\ env = [k \in {} |-> [t |-> "undefined", v |-> 0]]
    /\ llmClient = [kind |-> "none", apiKey |-> [t |-> "undefined", v |-> 0],
                    baseURL |-> [t |-> "undefined", v |-> 0], defaultHeaders |-> {}]
    /\ chosenModel = [kind |-> "none", schemaGeneration |-> FALSE,
                      name |-> [t |-> "undefined", v |-> 0]]
SynthIdle == ModelIdle /\ SchemaIdle /\ ApiIdle /\ NavIdle /\ LlmIdle

\* a freshly constructed Queue
QueueNew ==
    /\ queue = <<>>
    /\ isProcessing = FALSE
    /\ jobSet = {}
    /\ workers = {}
    /\ calls = <<>>
    /\ started = <<>>
    /\ settled = <<>>

InitQueue == QueueNew /\ CallIdle /\ TransformIdle /\ SynthIdle

\* enqueue(id, task), including the synchronous part of the processQueue()
\* call it makes: up to the first `await job.task()`.  The task is a fresh
\* closure, identified by the ordinal of the call.
Enqueue(id) ==
    LET p == [id |-> id, task |-> Len(calls) + 1] IN
    /\ Len(calls) < MaxEnqueues
    /\ IF ~AlreadyQueued(id)
       THEN LET q1 == Push(queue, p) IN
            /\ jobSet' = jobSet \cup {id}
            /\ calls' = Append(calls, [id |-> id, task |-> p.task, accepted |-> TRUE])
            /\ IF EarlyReturn
               THEN /\ queue' = q1
                    /\ UNCHANGED <<isProcessing, workers, started>>
               ELSE \* while (queue.length > 0) { job = shift(); await job.task() }
                    /\ isProcessing' = TRUE
                    /\ queue' = ShiftRest(q1)
                    /\ workers' = workers \cup {Pending(ShiftJob(q1))}
                    /\ started' = Append(started, ShiftJob(q1).task)
       ELSE \* console.log("Job with ID ... is already in the queue.")
            /\ calls' = Append(calls, [id |-> id, task |-> p.task, accepted |-> FALSE])
            /\ UNCHANGED <<queue, isProcessing, jobSet, workers, started>>
    /\ UNCHANGED settled

\* the promise returned by job.task() settles (the task returns or throws)
TaskSettle(w, how) ==
    /\ w \in workers
    /\ w.st = "pending"
    /\ workers' = (workers \ {w}) \cup {[w EXCEPT !.st = how]}
    /\ settled' = Append(settled, [task |-> w.job.task, outcome |-> how])
    /\ UNCHANGED <<queue, isProcessing, jobSet, calls, started>>

\* processQueue resumes after the await: catch (log), finally (delete the id),
\* then the loop goes on to the next `await`, or ends and clears isProcessing
WorkerResume(w) ==
    /\ w \in workers
    /\ w.st \in {"fulfilled", "rejected"}
    /\ jobSet' = Finally(jobSet, w.job.id, w.st)
    /\ IF Len(queue) > 0
       THEN /\ queue' = ShiftRest(queue)
            /\ workers' = (workers \ {w}) \cup {Pending(ShiftJob(queue))}
            /\ started' = Append(started, ShiftJob(queue).task)
            /\ UNCHANGED isProcessing
       ELSE /\ isProcessing' = FALSE
            /\ workers' = workers \ {w}
            /\ UNCHANGED <<queue, started>>
    /\ UNCHANGED <<calls, settled>>

EnqueueStep == UNCHANGED <<callVars, transformVars, synthVars>> /\ \E id \in Ids : Enqueue(id)
SettleStep ==
    UNCHANGED <<callVars, transformVars, synthVars>> /\ \E w \in workers, o \in {"fulfilled", "rejected"} : TaskSettle(w, o)
ResumeStep == UNCHANGED <<callVars, transformVars, synthVars>> /\ \E w \in workers : WorkerResume(w)

NextQueue ==
    \/ EnqueueStep
    \/ SettleStep
    \/ ResumeStep

SpecQueue == InitQueue /\ [][NextQueue]_vars

\* every task settles at some time, and the continuation of a settled await is
\* run by the event loop
SpecQueueFair == SpecQueue /\ WF_vars(SettleStep) /\ WF_vars(ResumeStep)

(***************************************************************************)
(* Queue: observations used by the properties                              *)
(***************************************************************************)
QueuedJobs == {queue[i] : i \in 1..Len(queue)}
HeldJobs == {w.job : w \in workers}
Executing == {w.job : w \in {x \in workers : x.st = "pending"}}
AcceptedCalls == SelectSeq(calls, LAMBDA c : c.accepted)
AcceptedTasks == [i \in 1..Len(AcceptedCalls) |-> AcceptedCalls[i].task]
SettledTasks == {settled[i].task : i \in 1..Len(settled)}
IsPrefix(s, t) == Len(s) <= Len(t) /\ \A i \in 1..Len(s) : s[i] = t[i]
\* this step is an enqueue call; LastCall is the call it made
CallMade == Len(calls') = Len(calls) + 1
LastCall == calls'[Len(calls')]

\* C1: enqueue(id, task) is a no-op whenever a job with the same id is queued
\* or currently executing: the state of the Queue is unchanged, the task is
\* never queued or executed, and for every id at most one job is in flight.
C1_OneInFlight ==
    /\ \A id \in Ids : Cardinality({j \in QueuedJobs \cup HeldJobs : j.id = id}) <= 1
    /\ \A id \in Ids : Cardinality({i \in 1..Len(queue) : queue[i].id = id}) <= 1
    /\ \A i \in 1..Len(calls) :
          ~calls[i].accepted =>
              /\ \A k \in 1..Len(started) : started[k] # calls[i].task
              /\ \A j \in QueuedJobs \cup HeldJobs : j.task # calls[i].task
C1_DuplicateIsNoOp ==
    \A id \in Ids :
        (CallMade /\ LastCall.id = id /\ \E j \in QueuedJobs \cup Executing : j.id = id)
        => /\ ~LastCall.accepted
           /\ UNCHANGED <<queue, isProcessing, jobSet, workers, started, settled>>
C1_EnqueueDedup == [](C1_OneInFlight) /\ [][C1_DuplicateIsNoOp]_vars
C1_Witness ==
    \E i \in 1..Len(calls) :
        /\ ~calls[i].accepted
        /\ \E j \in Executing : j.id = calls[i].id
        /\ \E k \in 1..Len(queue) : queue[k].id # calls[i].id

\* C2: at most one task is executing at any time, and at most one worker loop
\* (processQueue activation) exists, whatever enqueue calls are made, also
\* while a task is running.
C2_SingleWorker ==
    /\ Cardinality(workers) <= 1
    /\ Cardinality(Executing) <= 1
    /\ Len(started) - Len(settled) \in {0, 1}
    /\ workers # {} => isProcessing
C2_Witness ==
    /\ Executing # {}
    /\ Len(queue) >= 1
    /\ Len(calls) >= 3

\* C3: jobs start in the order in which enqueue accepted them, and a job
\* starts only after every previously started task has settled.
C3_StartAfterSettle ==
    started' # started =>
        /\ Len(started') = Len(started) + 1
        /\ \A i \in 1..Len(started) : started[i] \in SettledTasks
C3_Fifo == [](IsPrefix(started, AcceptedTasks)) /\ [][C3_StartAfterSettle]_vars
C3_Witness ==
    /\ Len(started) >= 3
    /\ \E i \in 1..Len(calls) : calls[i].accepted /\ calls[i].task > started[Len(started)]

\* C4 (as stated): duplicates enqueued while the first job runs are not
\* executed, and once that job's task has settled a further enqueue of the
\* same id is accepted.
C4_NoRepeatedExecution ==
    /\ \A i, k \in 1..Len(started) : started[i] = started[k] => i = k
    /\ \A i \in 1..Len(calls) :
          ~calls[i].accepted => \A k \in 1..Len(started) : started[k] # calls[i].task
    /\ (workers = {} /\ queue = <<>>) =>
          \A i \in 1..Len(calls) :
              calls[i].accepted => \E k \in 1..Len(started) : started[k] = calls[i].task
C4_AcceptedOnceSettled ==
    \A id \in Ids :
        (/\ CallMade /\ LastCall.id = id
         /\ \A j \in QueuedJobs : j.id # id
         /\ \A j \in HeldJobs : j.id = id => j.task \in SettledTasks)
        => /\ LastCall.accepted
           /\ \E j \in QueuedJobs' \cup Executing' : j.task = LastCall.task
C4_Original == [](C4_NoRepeatedExecution) /\ [][C4_AcceptedOnceSettled]_vars

\* C4 (amended): duplicates enqueued while the first job runs are not
\* executed; once the worker has resumed after the task settled and removed
\* the id from jobSet (no job of that id is queued or held by the worker),
\* a further enqueue of the same id is accepted, and every accepted task is
\* executed exactly once by the time the queue has drained.
C4_AcceptedOnceRemoved ==
    \A id \in Ids :
        (/\ CallMade /\ LastCall.id = id
         /\ \A j \in QueuedJobs \cup HeldJobs : j.id # id)
        => /\ LastCall.accepted
           /\ \E j \in QueuedJobs' \cup Executing' : j.task = LastCall.task
C4_Amended == [](C4_NoRepeatedExecution) /\ [][C4_AcceptedOnceRemoved]_vars
C4_Witness ==
    \E a, b, c \in 1..Len(calls) :
        /\ a < b /\ b < c
        /\ calls[a].id = calls[b].id /\ calls[b].id = calls[c].id
        /\ calls[a].accepted /\ ~calls[b].accepted /\ calls[c].accepted
        /\ calls[a].task \in SettledTasks
        /\ \E k \in 1..Len(started) : started[k] = calls[c].task

\* C5: a task that throws or rejects does not stop the worker: when the worker
\* resumes after it, the id leaves jobSet exactly as on success and the next
\* queued job is started (the worker stops only when the queue is empty); no
\* accepted job is lost.
C5_ResumeAfterRejection ==
    \A w \in workers :
        (w.st \in {"fulfilled", "rejected"} /\ w \notin workers')
        => /\ w.job.id \notin jobSet'
           /\ IF Len(queue) > 0
              THEN /\ Pending(Head(queue)) \in workers'
                   /\ started' = Append(started, Head(queue).task)
                   /\ isProcessing'
              ELSE ~isProcessing' /\ workers' = {}
C5_NoJobLost ==
    /\ \A i \in 1..Len(calls) :
          calls[i].accepted =>
              \/ \E j \in QueuedJobs : j.task = calls[i].task
              \/ \E k \in 1..Len(started) : started[k] = calls[i].task
    /\ Len(queue) > 0 => workers # {}
    /\ jobSet = {j.id : j \in QueuedJobs \cup HeldJobs}
C5_RejectionDoesNotStop == [](C5_NoJobLost) /\ [][C5_ResumeAfterRejection]_vars
C5_Witness ==
    \E i \in 1..Len(settled) :
        /\ settled[i].outcome = "rejected"
        /\ Len(started) > i
        /\ \E c \in 1..Len(calls) : calls[c].task = settled[i].task /\ calls[c].id \notin jobSet

(***************************************************************************)
(* JSON values, as callEndpoint sees them in response.data                 *)
(***************************************************************************)
Num(n) == [t |-> "num", v |-> n]
Null == [t |-> "null", v |-> 0]
Undefined == [t |-> "undefined", v |-> 0]
\* a string is the sequence of its characters
Str(cs) == [t |-> "str", v |-> cs]
Arr(s) == [t |-> "arr", v |-> s]
\* an object with one own property
Obj(k, x) == [t |-> "obj", v |-> [key |-> k, val |-> x]]

\* JavaScript truthiness: `!x`, `x || y`, `x && y`
Truthy(x) ==
    CASE x.t = "num" -> x.v # 0
      [] x.t = "str" -> Len(x.v) > 0
      [] x.t \in {"null", "undefined"} -> FALSE
      [] OTHER -> TRUE

\* the property read `x[k]` on a value that is neither null nor undefined
Get(x, k) == IF x.t = "obj" /\ x.v.key = k THEN x.v.val ELSE Undefined

\* JSON.stringify, as the sequence of the tokens of its output
RECURSIVE JSONStringify(_)
RECURSIVE StringifyItems(_)
StringifyItems(s) ==
    IF Len(s) = 0 THEN <<>>
    ELSE IF Len(s) = 1 THEN JSONStringify(s[1])
    ELSE LET h == Len(s) \div 2 IN
         StringifyItems(SubSeq(s, 1, h)) \o <<",">> \o StringifyItems(SubSeq(s, h + 1, Len(s)))
JSONStringify(x) ==
    CASE x.t = "num" -> <<ToString(x.v)>>
      [] x.t = "str" -> <<"\"">> \o x.v \o <<"\"">>
      [] x.t = "arr" -> <<"[">> \o StringifyItems(x.v) \o <<"]">>
      [] x.t = "obj" -> <<"{", "\"", x.v.key, "\"", ":">> \o JSONStringify(x.v.val) \o <<"}">>
      [] OTHER -> <<"null">>

\* String.prototype.slice(0, n), trim, toLowerCase and startsWith
Slice(cs, n) == SubSeq(cs, 1, IF Len(cs) < n THEN Len(cs) ELSE n)
IsSpace(c) == c \in {" ", "\n", "\t"}
RECURSIVE TrimStart(_)
TrimStart(cs) == IF Len(cs) > 0 /\ IsSpace(Head(cs)) THEN TrimStart(Tail(cs)) ELSE cs
RECURSIVE TrimEnd(_)
TrimEnd(cs) ==
    IF Len(cs) > 0 /\ IsSpace(cs[Len(cs)]) THEN TrimEnd(SubSeq(cs, 1, Len(cs) - 1)) ELSE cs
Trim(cs) == TrimEnd(TrimStart(cs))
LowerChar(c) ==
    CASE c = "D" -> "d" [] c = "O" -> "o" [] c = "C" -> "c" [] c = "T" -> "t"
      [] c = "Y" -> "y" [] c = "P" -> "p" [] c = "E" -> "e" [] c = "H" -> "h"
      [] c = "M" -> "m" [] c = "L" -> "l" [] OTHER -> c
ToLowerCase(cs) == [i \in 1..Len(cs) |-> LowerChar(cs[i])]
StartsWith(cs, pre) == Len(cs) >= Len(pre) /\ SubSeq(cs, 1, Len(pre)) = pre

DoctypePrefix == <<"<", "!", "d", "o", "c", "t", "y", "p", "e", " ", "h", "t", "m", "l">>
HtmlPrefix == <<"<", "h", "t", "m", "l">>

\* the HTML test on response.data
IsHtmlCaseSensitive(body) ==
    /\ body.t = "str"
    /\ \/ StartsWith(Trim(Slice(body.v, 100)), DoctypePrefix)
       \/ StartsWith(Trim(Slice(body.v, 100)), HtmlPrefix)
IsHtml(body) ==
    /\ body.t = "str"
    /\ \/ StartsWith(ToLowerCase(Trim(Slice(body.v, 100))), DoctypePrefix)
       \/ StartsWith(ToLowerCase(Trim(Slice(body.v, 100))), HtmlPrefix)

(***************************************************************************)
(* callEndpoint                                                            *)
(***************************************************************************)
\* {...a, ...b}: the keys of both, b's value on a shared key
Spread(a, b) == b @@ a

\* values of the variable maps, tagged with the map they come from
Val(from, n) == [from |-> from, val |-> n]

NoVars == [k \in {} |-> Val("none", 0)]

\* const allVariables = { ...payload, ...credentials }
AllVariables == Spread(payload, credentials)

\* endpoint.pagination?.pageSize || 50   (a pageSize of 0 stands for an unset
\* pageSize as well: both are falsy here and make `length < pageSize` false)
PageSizeOrDefault == IF endpoint.pagination.pageSize # 0
                     THEN endpoint.pagination.pageSize
                     ELSE DefaultPageSize

\* the paginationVars of this iteration
PaginationVars ==
    CASE endpoint.pagination.type = "PAGE_BASED" ->
            ("page" :> Val("pagination", page)) @@ ("limit" :> Val("pagination", PageSizeOrDefault))
      [] endpoint.pagination.type = "OFFSET_BASED" ->
            ("offset" :> Val("pagination", offset)) @@ ("limit" :> Val("pagination", PageSizeOrDefault))
      [] OTHER -> NoVars

\* hasMore after the pagination branches: the final else sets it to false
HasMoreKept(ptype, hm) == hm
HasMoreAfterVars(ptype, hm) == IF ptype \in {"PAGE_BASED", "OFFSET_BASED"} THEN hm ELSE FALSE

\* page++ / offset += pageSize || 50 / hasMore = false
AdvancePagination ==
    /\ page' = IF endpoint.pagination.type = "PAGE_BASED" THEN page + 1 ELSE page
    /\ offset' = IF endpoint.pagination.type = "OFFSET_BASED"
                 THEN offset + PageSizeOrDefault ELSE offset
    /\ hasMore' = HasMoreAfterVars(endpoint.pagination.type, hasMore)

\* const requestVars = { ...paginationVars, ...allVariables }
RequestVarsPaginationLast == Spread(AllVariables, PaginationVars)
RequestVars == Spread(PaginationVars, AllVariables)

\* validateVariables: the placeholders found by findTemplateVars in urlPath,
\* the query values, the header values and the body, in that order, that are
\* not among vars, "page", "limit", "offset"
ReservedVars == {"page", "limit", "offset"}
VarMatches(config) ==
    config.urlPath \o config.queryParams \o config.headers \o config.body.vars
ValidateNothing(config, known) == <<>>
ValidateVariables(config, known) ==
    SelectSeq(VarMatches(config), LAMBDA v : v \notin (known \cup ReservedVars))

InvalidVars == ValidateVariables(endpoint, DOMAIN RequestVars)

\* JSON.parse(replaceVariables(endpoint.body, requestVars)) throws a SyntaxError
BodyParseThrows == endpoint.body.present /\ ~endpoint.body.parses

\* while (hasMore && loopCounter <= 500)
WhileTest == hasMore /\ loopCounter <= LoopCeiling

\* no response received yet
NoResponse == [status |-> 0, data |-> Undefined]

\* what the thrown message of a failed call is built from (lines 356-373)
FailureReport == {"method", "url", "status", "response", "headers", "body", "params"}

NoOutcome ==
    [kind |-> "none", error |-> "", vars |-> <<>>, data |-> Undefined,
     status |-> 0, mentions |-> {}]
Threw(e, names) ==
    [kind |-> "threw", error |-> e, vars |-> names, data |-> Undefined,
     status |-> 0, mentions |-> {}]
\* throw new Error(`API call failed with status ${response.status}. Response: ${message}`)
ThrewHttpFailure(status) ==
    [kind |-> "threw", error |-> "HttpFailure", vars |-> <<>>, data |-> Undefined,
     status |-> status, mentions |-> FailureReport]
\* return { data: allResults?.length == 1 ? allResults[0] : allResults }
ReturnedArray(all) ==
    [kind |-> "returned", error |-> "", vars |-> <<>>, data |-> Arr(all),
     status |-> 0, mentions |-> {}]
Returned(all) ==
    [kind |-> "returned", error |-> "", vars |-> <<>>,
     data |-> IF Len(all) = 1 THEN all[1] ELSE Arr(all),
     status |-> 0, mentions |-> {}]

\* the loop ends and callEndpoint returns
LoopExit ==
    /\ pc = "loop"
    /\ ~WhileTest
    /\ pc' = "returned"
    /\ outcome' = Returned(allResults)
    /\ UNCHANGED <<endpoint, payload, credentials, server, allResults, page, offset,
                   hasMore, loopCounter, response, requests, pages>>
    /\ UNCHANGED <<queueVars, transformVars, synthVars>>

\* an iteration that throws "The following variables are not defined: ..."
ThrowUnresolved ==
    /\ pc = "loop"
    /\ WhileTest
    /\ Len(InvalidVars) > 0
    /\ AdvancePagination
    /\ pc' = "threw"
    /\ outcome' = Threw("UnresolvedVariables", InvalidVars)
    /\ UNCHANGED <<endpoint, payload, credentials, server, allResults, loopCounter,
                   response, requests, pages>>
    /\ UNCHANGED <<queueVars, transformVars, synthVars>>

\* an iteration whose interpolated body is not JSON: JSON.parse throws
ThrowBodyParse ==
    /\ pc = "loop"
    /\ WhileTest
    /\ Len(InvalidVars) = 0
    /\ BodyParseThrows
    /\ AdvancePagination
    /\ pc' = "threw"
    /\ outcome' = Threw("SyntaxError", <<>>)
    /\ UNCHANGED <<endpoint, payload, credentials, server, allResults, loopCounter,
                   response, requests, pages>>
    /\ UNCHANGED <<queueVars, transformVars, synthVars>>

\* an iteration up to `await callAxios(axiosConfig, options)`
SendRequest ==
    /\ pc = "loop"
    /\ WhileTest
    /\ Len(InvalidVars) = 0
    /\ ~BodyParseThrows
    /\ server.kind = "arbitrary" => Len(requests) < MaxRequests
    /\ AdvancePagination
    /\ requests' = Append(requests, [vars |-> RequestVars])
    /\ pc' = "awaiting"
    /\ UNCHANGED <<endpoint, payload, credentials, server, allResults, loopCounter,
                   response, pages, outcome>>
    /\ UNCHANGED <<queueVars, transformVars, synthVars>>

(***************************************************************************)
(* The server: what callAxios resolves to                                  *)
(***************************************************************************)
ItemValues == {Num(i) : i \in Items}
ArbitraryPages == UNION {[1..n -> ItemValues] : n \in 0..MaxPageLen}
HtmlDocument == Str(<<" ", "<", "H", "T", "M", "L", ">">>)
\* an HTML page whose markup starts at character 97, after 96 blanks
PaddedHtmlDocument == Str([i \in 1..96 |-> " "] \o <<"<", "h", "t", "m", "l", ">">>)
ArbitraryBodies ==
    {Arr(p) : p \in ArbitraryPages}
    \cup {Obj("data", Arr(<<>>)), Obj("data", Arr(<<Num(1)>>))}
    \cup {Obj("id", Num(1)), Obj("error", Num(1)), Obj("error", Num(0))}
    \cup {Num(0), Num(7), Null, Str(<<"o", "k">>), HtmlDocument}
FailedResponses ==
    {[status |-> 500, data |-> Null], [status |-> 404, data |-> HtmlDocument],
     [status |-> 429, data |-> Obj("error", Num(1))]}
\* the request callAxios was called with
LastRequest == requests[Len(requests)]
\* items[offset, offset + limit) of the server's items 1..total
SliceOf(total, off, lim) ==
    [i \in 1..(IF off >= total THEN 0 ELSE IF total - off < lim THEN total - off ELSE lim)
        |-> Num(off + i)]
Responses ==
    IF Len(requests) = 0
    THEN {}
    ELSE IF server.kind = "slicing"
    THEN {[status |-> 200,
           data |-> Arr(SliceOf(server.total, LastRequest.vars["offset"].val,
                                LastRequest.vars["limit"].val))]}
    ELSE IF server.kind = "arbitrary"
    THEN {[status |-> 200, data |-> b] : b \in ArbitraryBodies}
         \cup {[status |-> 201, data |-> Obj("id", Num(1))], [status |-> 204, data |-> Str(<<>>)]}
         \cup FailedResponses
    ELSE \* a server with an endless supply of distinct items, one per request
         {[status |-> 200, data |-> Arr(<<Num(Len(requests))>>)],
          [status |-> 200, data |-> HtmlDocument], [status |-> 200, data |-> Null],
          [status |-> 200, data |-> PaddedHtmlDocument]}
         \cup FailedResponses

\* ![200, 201, 204].includes(response?.status) || response.data?.error
FailedStatusOnly(r) == r.status \notin {200, 201, 204}
Failed(r) == r.status \notin {200, 201, 204} \/ Truthy(Get(r.data, "error"))

\* the dataPath walk: for (const part of endpoint.dataPath.split('.')) ...
RECURSIVE Walk(_, _)
Walk(x, parts) ==
    IF Len(parts) = 0 THEN [value |-> x, dataPathSuccess |-> TRUE]
    ELSE IF ~Truthy(Get(x, Head(parts))) /\ Head(parts) # "$"
         THEN [value |-> x, dataPathSuccess |-> FALSE]
         ELSE Walk(IF Truthy(Get(x, Head(parts))) THEN Get(x, Head(parts)) ELSE x,
                   Tail(parts))

\* reading a property of null or undefined throws a TypeError
WalkThrows(x, parts) == Len(parts) > 0 /\ x.t \in {"null", "undefined"}

\* responseData.length < endpoint.pagination?.pageSize
ShortPageNever(n) == FALSE
ShortPage(n) == n < endpoint.pagination.pageSize

\* JSON.stringify(responseData) !== JSON.stringify(allResults), negated
SamePage(responseData, all) == JSONStringify(responseData) = JSONStringify(Arr(all))

\* allResults.concat(responseData)
ConcatFront(all, items) == items \o all
Concat(all, items) == all \o items

Finish(r, thrown) ==
    /\ response' = r
    /\ pc' = "threw"
    /\ outcome' = thrown
    /\ UNCHANGED <<endpoint, payload, credentials, server, allResults, page, offset,
                   hasMore, loopCounter, requests, pages>>
    /\ UNCHANGED <<queueVars, transformVars, synthVars>>

\* the response is rejected: status not in {200, 201, 204} or data.error set
HttpFailure(r) ==
    /\ pc = "awaiting"
    /\ Failed(r)
    /\ Finish(r, ThrewHttpFailure(r.status))

\* the response is an HTML page
HtmlResponse(r) ==
    /\ pc = "awaiting"
    /\ ~Failed(r)
    /\ IsHtml(r.data)
    /\ Finish(r, Threw("HtmlInsteadOfJson", <<>>))

\* the dataPath walk reads a property of null
WalkTypeError(r) ==
    /\ pc = "awaiting"
    /\ ~Failed(r)
    /\ ~IsHtml(r.data)
    /\ WalkThrows(r.data, endpoint.dataPath)
    /\ Finish(r, Threw("TypeError", <<>>))

\* the rest of the iteration: extraction, aggregation, loopCounter++
ProcessResponse(r) ==
    /\ pc = "awaiting"
    /\ ~Failed(r)
    /\ ~IsHtml(r.data)
    /\ ~WalkThrows(r.data, endpoint.dataPath)
    /\ LET responseData == Walk(r.data, endpoint.dataPath).value IN
       /\ IF responseData.t = "arr"
          THEN /\ allResults' = IF ~SamePage(responseData, allResults)
                                THEN Concat(allResults, responseData.v)
                                ELSE allResults
               /\ hasMore' = IF ShortPage(Len(responseData.v)) \/ SamePage(responseData, allResults)
                             THEN FALSE
                             ELSE hasMore
          ELSE IF Truthy(responseData) /\ Len(allResults) = 0
               THEN allResults' = <<responseData>> /\ hasMore' = FALSE
               ELSE allResults' = allResults /\ hasMore' = FALSE
       /\ pages' = Append(pages, responseData)
    /\ loopCounter' = loopCounter + 1
    /\ response' = r
    /\ pc' = "loop"
    /\ UNCHANGED <<endpoint, payload, credentials, server, page, offset, requests, outcome>>
    /\ UNCHANGED <<queueVars, transformVars, synthVars>>

(***************************************************************************)
(* The invocations explored                                                *)
(***************************************************************************)
\* the server behind callAxios: its kind and, for a slicing server, its item count
Server(kind, total) == [kind |-> kind, total |-> total]
\* callEndpoint(endpoint, payload, credentials, options) is entered
CallStart(e, p, c, srv) ==
    /\ endpoint = e
    /\ payload = p
    /\ credentials = c
    /\ server = srv
    /\ pc = "loop"
    /\ allResults = <<>>
    /\ page = 1
    /\ offset = 0
    /\ hasMore = TRUE
    /\ loopCounter = 0
    /\ response = NoResponse
    /\ requests = <<>>
    /\ pages = <<>>
    /\ outcome = NoOutcome

\* endpoint.pagination: absent, or {type, pageSize}
PaginationSettings ==
    {[type |-> "ABSENT", pageSize |-> 0]}
    \cup {[type |-> ty, pageSize |-> n] :
            ty \in {"DISABLED", "PAGE_BASED", "OFFSET_BASED"}, n \in 0..MaxPageLen}

\* endpoint.dataPath, split at the dots (empty: no dataPath)
DataPaths == {<<>>, <<"data">>}

\* the placeholders of urlHost, urlPath, the query values and the header values
TemplateFields == {"urlHost", "urlPath", "queryParams", "headers"}
PlaceholderNames == {"id", "token", "page", "limit", "offset", "userid"}
OneField(f, names) == [g \in TemplateFields |-> IF g = f THEN names ELSE <<>>]
NoPlaceholders == [g \in TemplateFields |-> <<>>]
Templates ==
    {NoPlaceholders}
    \cup {OneField(f, <<n>>) : f \in TemplateFields, n \in PlaceholderNames}
    \cup {[urlHost |-> <<>>, urlPath |-> <<"userid">>, queryParams |-> <<>>,
           headers |-> <<"apikey", "id">>]}

\* endpoint.body: absent, or a string with its placeholders; parses tells
\* whether the interpolated string is JSON
NoBody == [present |-> FALSE, vars |-> <<>>, parses |-> TRUE]
Bodies ==
    {NoBody}
    \cup {[present |-> TRUE, vars |-> vs, parses |-> b] :
            vs \in {<<>>, <<"id">>, <<"userid">>}, b \in BOOLEAN}

Endpoint(pg, dp, tm, body) ==
    [pagination |-> pg, dataPath |-> dp, urlHost |-> tm.urlHost, urlPath |-> tm.urlPath,
     queryParams |-> tm.queryParams, headers |-> tm.headers, body |-> body]

SomePayload == "id" :> Val("payload", 7)
SomeCredentials == "token" :> Val("credentials", 9)

\* invocations that vary the pagination setting and the dataPath
PaginationRuns ==
    \E pg \in PaginationSettings, dp \in DataPaths :
        \* a dataPath is combined with the unpaginated settings and with full-size pages
        /\ dp # <<>> => \/ pg.type \in {"ABSENT", "DISABLED"}
                        \/ pg.type = "PAGE_BASED" /\ pg.pageSize = MaxPageLen
        \* offsets are run with the page size unset and with the largest page size
        /\ pg.type = "OFFSET_BASED" => pg.pageSize \in {0, MaxPageLen}
        /\ CallStart(Endpoint(pg, dp, NoPlaceholders, NoBody), SomePayload, SomeCredentials,
                     Server("arbitrary", 0))

\* invocations that vary the placeholders, the body and the variables
TemplateRuns ==
    \E tb \in (Templates \X {NoBody}) \cup ({NoPlaceholders} \X Bodies),
       pc0 \in {<<NoVars, NoVars>>, <<SomePayload, SomeCredentials>>} :
        CallStart(Endpoint([type |-> "ABSENT", pageSize |-> 0], <<>>, tb[1], tb[2]),
                  pc0[1], pc0[2], Server("arbitrary", 0))

\* paginated invocations with placeholders
PaginatedTemplateRuns ==
    \E ty \in {"PAGE_BASED", "OFFSET_BASED"},
       tb \in {<<OneField("queryParams", <<"page">>), NoBody>>,
               <<OneField("headers", <<"token">>), NoBody>>,
               <<OneField("urlPath", <<"userid">>), NoBody>>,
               <<[urlHost |-> <<>>, urlPath |-> <<"userid">>, queryParams |-> <<>>,
                  headers |-> <<"apikey", "id">>], NoBody>>,
               <<NoPlaceholders, [present |-> TRUE, vars |-> <<"id">>, parses |-> FALSE]>>},
       pc0 \in {<<NoVars, NoVars>>, <<SomePayload, SomeCredentials>>} :
        CallStart(Endpoint([type |-> ty, pageSize |-> MaxPageLen], <<>>, tb[1], tb[2]),
                  pc0[1], pc0[2], Server("arbitrary", 0))

\* invocations against a server that never runs out of distinct items
EndlessRuns ==
    \E pg \in PaginationSettings,
       tb \in {<<NoPlaceholders, NoBody>>, <<OneField("urlPath", <<"userid">>), NoBody>>,
               <<NoPlaceholders, [present |-> TRUE, vars |-> <<>>, parses |-> FALSE]>>} :
        CallStart(Endpoint(pg, <<"data">>, tb[1], tb[2]), SomePayload, SomeCredentials,
                  Server("endless", 0))

\* offset-paginated invocations against a server that holds the items 1..n and
\* answers each request with items[offset, offset + limit)
SliceTotals == 0..MaxItems \cup {LoopCeiling, LoopCeiling + 1, LoopCeiling + 2}
SliceRuns ==
    \E n \in SliceTotals, ps \in 1..MaxPageLen :
        CallStart(Endpoint([type |-> "OFFSET_BASED", pageSize |-> ps], <<>>,
                           OneField("queryParams", <<"offset", "limit">>), NoBody),
                  SomePayload, SomeCredentials, Server("slicing", n))

InitCall == QueueNew /\ TransformIdle /\ SynthIdle /\ (PaginationRuns \/ TemplateRuns \/ PaginatedTemplateRuns)

\* paginated invocations whose payload or credentials carry a key with the
\* name of a pagination variable
ReservedKeyMaps(from) == {n :> Val(from, 7) : n \in ReservedVars}
ReservedKeyRuns ==
    \E ty \in {"PAGE_BASED", "OFFSET_BASED"},
       pcr \in ({SomePayload} \X ReservedKeyMaps("credentials"))
               \cup (ReservedKeyMaps("payload") \X {SomeCredentials}) :
        CallStart(Endpoint([type |-> ty, pageSize |-> MaxPageLen], <<>>,
                           OneField("queryParams", <<"page", "offset", "limit">>), NoBody),
                  pcr[1], pcr[2], Server("endless", 0))

\* paginated invocations whose payload and credentials have a key in common,
\* and whose payload has a key with the name of a pagination variable
SharedKeyRuns ==
    \E ty \in {"PAGE_BASED", "OFFSET_BASED"} :
        CallStart(Endpoint([type |-> ty, pageSize |-> 1], <<>>,
                           OneField("queryParams", <<"id", "limit">>), NoBody),
                  ("id" :> Val("payload", 7)) @@ ("limit" :> Val("payload", 5)),
                  ("id" :> Val("credentials", 9)) @@ ("token" :> Val("credentials", 9)),
                  Server("endless", 0))

InitCallLong ==
    QueueNew /\ TransformIdle /\ SynthIdle
    /\ (EndlessRuns \/ SliceRuns \/ ReservedKeyRuns \/ SharedKeyRuns)

\* callAxios resolves with a response of the server
HttpFailureStep == \E r \in Responses : HttpFailure(r)
HtmlResponseStep == \E r \in Responses : HtmlResponse(r)
WalkTypeErrorStep == \E r \in Responses : WalkTypeError(r)
ProcessResponseStep == \E r \in Responses : ProcessResponse(r)

NextCall ==
    \/ LoopExit
    \/ ThrowUnresolved
    \/ ThrowBodyParse
    \/ SendRequest
    \/ HttpFailureStep
    \/ HtmlResponseStep
    \/ WalkTypeErrorStep
    \/ ProcessResponseStep

SpecCall == InitCall /\ [][NextCall]_vars
SpecCallLong == InitCallLong /\ [][NextCall]_vars

(***************************************************************************)
(* callEndpoint: observations used by the properties                       *)
(***************************************************************************)
Names(seq) == {seq[i] : i \in 1..Len(seq)}
Paginated == endpoint.pagination.type \in {"PAGE_BASED", "OFFSET_BASED"}
\* the invocation has not taken its first step
AtEntry == pc = "loop" /\ loopCounter = 0 /\ Len(requests) = 0
\* this step completed an iteration; LastPage is the responseData it extracted
IterationDone == Len(pages') = Len(pages) + 1
LastPage == pages'[Len(pages')]
\* the placeholders of urlPath, headers, query parameters and body that are
\* not in keys(payload) \cup keys(credentials) \cup {page, offset, limit}
UnboundPlaceholders ==
    (Names(endpoint.urlPath) \cup Names(endpoint.headers) \cup Names(endpoint.queryParams)
        \cup Names(endpoint.body.vars))
    \ (DOMAIN payload \cup DOMAIN credentials \cup {"page", "offset", "limit"})

\* C6: with an unbound placeholder the call throws an error naming the unbound
\* variables and issues no HTTP request at all.
C6_UnboundThrows ==
    UnboundPlaceholders # {} =>
        /\ Len(requests) = 0
        /\ ~AtEntry => /\ pc = "threw"
                       /\ outcome.error = "UnresolvedVariables"
                       /\ Names(outcome.vars) = UnboundPlaceholders
\* C6 (as stated): ... and without an unbound placeholder execution proceeds
\* to the HTTP request.
C6_Original ==
    /\ C6_UnboundThrows
    /\ (UnboundPlaceholders = {} /\ ~AtEntry) => Len(requests) >= 1
\* C6 (amended): ... and without an unbound placeholder validation passes: the
\* HTTP request is issued unless JSON.parse of the interpolated body throws.
C6_Amended ==
    /\ C6_UnboundThrows
    /\ (UnboundPlaceholders = {} /\ ~AtEntry) =>
          \/ Len(requests) >= 1
          \/ /\ pc = "threw" /\ outcome.error = "SyntaxError"
             /\ endpoint.body.present /\ ~endpoint.body.parses
    /\ (UnboundPlaceholders = {} /\ ~AtEntry /\ ~(endpoint.body.present /\ ~endpoint.body.parses))
          => Len(requests) >= 1
C6_Witness ==
    /\ pc = "threw"
    /\ outcome.error = "UnresolvedVariables"
    /\ Cardinality(UnboundPlaceholders) >= 2
    /\ Paginated
    /\ Len(requests) = 0

\* C7: a run issues at most 500 HTTP requests (loop iterations), whatever the
\* server returns.
C7_AtMostCeiling == Len(requests) <= LoopCeiling /\ Len(pages) <= LoopCeiling

\* C8: with pagination DISABLED or absent, a run that gets a response has
\* issued exactly one HTTP request, whatever the shape of the response: the
\* loop ends after the first iteration.
C8_DisabledOnce ==
    endpoint.pagination.type \in {"ABSENT", "DISABLED"} =>
        /\ Len(requests) <= 1
        /\ Len(pages) >= 1 => ~hasMore
        /\ pc = "returned" => Len(requests) = 1 /\ Len(pages) = 1
        /\ (pc = "threw" /\ outcome.error \in {"HttpFailure", "HtmlInsteadOfJson", "TypeError"})
              => Len(requests) = 1
C8_Witness ==
    /\ endpoint.pagination.type = "DISABLED"
    /\ endpoint.pagination.pageSize > 0
    /\ pc = "returned"
    /\ pages[1].t = "arr"
    /\ Len(pages[1].v) >= endpoint.pagination.pageSize
    /\ Len(allResults) >= 2

\* C9: in a paginated run, an extracted page that is an array shorter than the
\* page size (50 when no pageSize is set) is appended and ends the loop.
C9_ShortPage ==
    (/\ IterationDone /\ Paginated
     /\ LastPage.t = "arr" /\ Len(LastPage.v) < PageSizeOrDefault)
    => /\ allResults' = allResults \o LastPage.v
       /\ ~hasMore'
C9_ShortPageStops == [][C9_ShortPage]_vars

\* C10: in a paginated run, an iteration at any position that returns the
\* same page array as the iteration before it ends the loop, and the repeated
\* page is not appended.
C10_RepeatedPage ==
    (/\ IterationDone /\ Paginated /\ Len(pages) >= 1
     /\ LastPage.t = "arr" /\ LastPage = pages[Len(pages)])
    => /\ allResults' = allResults
       /\ ~hasMore'
C10_RepeatedPageStops == [][C10_RepeatedPage]_vars

\* C11: every iteration of the pagination loop that completes without error
\* either makes allResults longer or ends the loop.
C11_Progress ==
    (IterationDone /\ Paginated) => (Len(allResults') > Len(allResults) \/ ~hasMore')
C11_GrowsOrStops == [][C11_Progress]_vars

\* the items 1..n of a slicing server, in server order
ServerItems(n) == [i \in 1..n |-> Num(i)]
SlicingRun == server.kind = "slicing"
\* the offsets of the requests issued so far are 0, P, 2P, ...
OffsetsInSteps ==
    \A k \in 1..Len(requests) :
        requests[k].vars["offset"].val = (k - 1) * endpoint.pagination.pageSize

\* C12 (as stated): against a server slicing N distinct items, an OFFSET_BASED
\* run with pageSize P > 0 issues floor(N/P)+1 requests at offsets 0, P, 2P, ...
\* and returns the N items in server order.
C12_Original ==
    SlicingRun =>
        /\ OffsetsInSteps
        /\ pc = "returned" =>
              /\ Len(requests) = (server.total \div endpoint.pagination.pageSize) + 1
              /\ outcome.data = Arr(ServerItems(server.total))
\* C12 (amended): ... when floor(N/P)+1 is within the iteration ceiling; the
\* result is the array of the N items, except that for N = 1 it is the item.
C12_Amended ==
    (SlicingRun /\ (server.total \div endpoint.pagination.pageSize) + 1 <= LoopCeiling) =>
        /\ OffsetsInSteps
        /\ Len(requests) <= (server.total \div endpoint.pagination.pageSize) + 1
        /\ pc = "returned" =>
              /\ Len(requests) = (server.total \div endpoint.pagination.pageSize) + 1
              /\ allResults = ServerItems(server.total)
              /\ outcome.data = IF server.total = 1 THEN Num(1)
                                ELSE Arr(ServerItems(server.total))
C12_Witness ==
    /\ SlicingRun
    /\ pc = "returned"
    /\ endpoint.pagination.pageSize = 2
    /\ server.total = 5
    /\ Len(requests) = 3
    /\ outcome.data = Arr(ServerItems(5))

\* C13: in the k-th iteration of a paginated run the request carries page = k
\* (PAGE_BASED) or offset = (k-1)*pageSize (OFFSET_BASED), and limit =
\* pageSize (50 when unset), for every payload and credentials.
C13_PaginationValues ==
    Paginated =>
        \A k \in 1..Len(requests) :
            /\ requests[k].vars["limit"].val = PageSizeOrDefault
            /\ endpoint.pagination.type = "PAGE_BASED" => requests[k].vars["page"].val = k
            /\ endpoint.pagination.type = "OFFSET_BASED" =>
                   requests[k].vars["offset"].val = (k - 1) * PageSizeOrDefault

\* the page arrays among pages[1..n], concatenated in fetch order
RECURSIVE FlattenPages(_)
FlattenPages(n) ==
    IF n = 0 THEN <<>>
    ELSE FlattenPages(n - 1) \o (IF pages[n].t = "arr" THEN pages[n].v ELSE <<>>)
\* a request is issued only when every earlier response has been processed
C14_OneAtATime ==
    Len(requests') = Len(requests) + 1 => (pc = "loop" /\ Len(pages) = Len(requests))
C14_AtMostOneOutstanding ==
    /\ Len(pages) <= Len(requests)
    /\ Len(requests) <= Len(pages) + 1
    /\ pc = "awaiting" <=> (Len(requests) = Len(pages) + 1 /\ outcome.kind = "none")
\* the accumulated array is the concatenation of all page arrays
C14_AllPagesConcatenated ==
    (Len(pages) >= 1 /\ pages[1].t = "arr") => allResults = FlattenPages(Len(pages))
\* ... except for a last page identical to everything accumulated before it
C14_PagesConcatenatedButRepeat ==
    (Len(pages) >= 1 /\ pages[1].t = "arr") =>
        LET before == FlattenPages(Len(pages) - 1)
            last == pages[Len(pages)]
        IN  /\ \A k \in 1..(Len(pages) - 1) : pages[k].t = "arr"
            /\ allResults = IF last.t = "arr" /\ last.v # before
                            THEN before \o last.v
                            ELSE before
            /\ (pc = "returned" /\ Len(allResults) # 1) => outcome.data = Arr(allResults)
\* C14 (as stated): pages are fetched one after another and the returned
\* array is the concatenation of the page arrays in fetch order.
C14_Original ==
    /\ [](C14_AtMostOneOutstanding /\ C14_AllPagesConcatenated)
    /\ [][C14_OneAtATime]_vars
\* C14 (amended): ... the concatenation, in fetch order, of the page arrays
\* other than a last page identical to the results accumulated before it.
C14_Amended ==
    /\ [](C14_AtMostOneOutstanding /\ C14_PagesConcatenatedButRepeat)
    /\ [][C14_OneAtATime]_vars
C14_Witness ==
    /\ pc = "returned"
    /\ Len(pages) = 3
    /\ \A k \in 1..3 : pages[k].t = "arr" /\ Len(pages[k].v) >= 1
    /\ pages[1] # pages[2]
    /\ allResults = pages[1].v \o pages[2].v \o pages[3].v
    /\ outcome.data = Arr(allResults)

\* this step received the response of the outstanding request
ResponseReceived == pc = "awaiting" /\ pc' # "awaiting"
\* C15: a response with a status outside {200, 201, 204} or with a truthy
\* `error` field makes callEndpoint throw an error that reports the method,
\* URL, status, headers, body and query parameters; no data is returned and
\* no further request is issued, whatever was fetched before.
C15_FailureThrows ==
    (ResponseReceived
     /\ (response'.status \notin {200, 201, 204} \/ Truthy(Get(response'.data, "error"))))
    => /\ pc' = "threw"
       /\ outcome'.error = "HttpFailure"
       /\ outcome'.status = response'.status
       /\ {"method", "url", "status", "headers", "body", "params"} \subseteq outcome'.mentions
       /\ outcome'.data = Undefined
       /\ requests' = requests
C15_Thrown == pc = "threw" => (requests' = requests /\ outcome' = outcome /\ pc' = "threw")
C15_FailedResponseThrows == [][C15_FailureThrows /\ C15_Thrown]_vars
C15_Witness ==
    /\ pc = "threw"
    /\ outcome.error = "HttpFailure"
    /\ response.status = 200
    /\ Truthy(Get(response.data, "error"))
    /\ Len(pages) >= 2
    /\ Len(allResults) >= 2
    /\ outcome.data = Undefined

(***************************************************************************)
(* prepareTransform / generateMapping                                      *)
(***************************************************************************)
\* if (retry < 5)
MappingRetries == 5

\* an object with no own property
EmptyObj == [t |-> "emptyobj", v |-> 0]

\* the property read o.k on a plain object given as key -> value
Field(o, k) == IF k \in DOMAIN o THEN o[k] ELSE "undefined"
\* truthiness of such a property: undefined and "" are falsy
PresentNever(o, k) == FALSE
Present(o, k) == Field(o, k) \notin {"undefined", ""}

\* !input?.responseSchema || Object.keys(input.responseSchema).length === 0
\* ("{}" is the schema without keys)
SchemaEmptyNever(in) == FALSE
SchemaEmpty(in) == Field(in, "responseSchema") \in {"undefined", "{}"}

\* !data || (Array.isArray(data) && data.length === 0)
\*       || (typeof data === 'object' && Object.keys(data).length === 0)
DataEmpty(d) ==
    \/ ~Truthy(d)
    \/ d.t = "arr" /\ Len(d.v) = 0
    \/ d.t = "emptyobj"

\* what prepareTransform resolves or rejects with
NoResult == [kind |-> "none", config |-> <<>>, error |-> ""]
NullResult == [kind |-> "null", config |-> <<>>, error |-> ""]
ConfigResult(c) == [kind |-> "config", config |-> c, error |-> ""]
Rejected(e) == [kind |-> "rejected", config |-> <<>>, error |-> e]

\* createHash('md5').update(JSON.stringify({request: input, payloadKeys: ...}))
Hash == "md5"
\* new Date()
Now == "now"

\* return { ...cached, ...input }
CachedOverInput(c, in) == Spread(in, c)
CachedAndInput(c, in) == Spread(c, in)

\* { id: hash, createdAt, updatedAt, responseMapping: input.responseMapping,
\*   responseSchema: input.responseSchema, ...input }
SuppliedConfig(in) ==
    Spread(("id" :> Hash) @@ ("createdAt" :> Now) @@ ("updatedAt" :> Now)
             @@ ("responseMapping" :> Field(in, "responseMapping"))
             @@ ("responseSchema" :> Field(in, "responseSchema")),
           in)

\* the parsed reply {jsonata, confidence, confidence_reasoning} for expression m
\* { id: hash, createdAt, updatedAt, ...input, responseSchema: input.responseSchema,
\*   responseMapping: mapping.jsonata, confidence, confidence_reasoning }
GeneratedConfig(in, m) ==
    Spread(Spread(("id" :> Hash) @@ ("createdAt" :> Now) @@ ("updatedAt" :> Now), in),
           ("responseSchema" :> Field(in, "responseSchema"))
             @@ ("responseMapping" :> m)
             @@ ("confidence" :> "confidence") 
             @@ ("confidence_reasoning" :> "reasoning"))

\* the messages parameter when the caller passes none
NoMessages == <<>>
Message(role, content) == [role |-> role, content |-> content]
\* messages = [{role: "system", content: PROMPT_MAPPING}, {role: "user", content: userPrompt}]
FirstMessages == <<Message("system", "PROMPT_MAPPING"), Message("user", "userPrompt")>>

\* if (!messages) { messages = [...] }
MessagesReset(msgs) == FirstMessages
MessagesToSend(msgs) == IF msgs = NoMessages THEN FirstMessages ELSE msgs

\* transformation.success of applyJsonataWithValidation(payload, content.jsonata, schema)
ValidatesAlways(m) == TRUE
Validates(m) == m \in valid

\* if (retry < 5)
MayRetryOnceMore(r) == r < MappingRetries + 1
MayRetry(r) == r < MappingRetries

\* the catch block of generateMapping for an attempt that failed with error
\* e after the messages became msgs, and the return of prepareTransform
Catch(e, msgs) ==
    /\ attempts' = Append(attempts, e)
    /\ IF MayRetry(retry)
       THEN IF msgs = NoMessages
            THEN \* messages.push on undefined throws inside the catch block
                 /\ tpc' = "done"
                 /\ result' = Rejected("TypeError")
                 /\ UNCHANGED <<retry, messages>>
            ELSE \* messages.push({role: "user", content: error.message}); retry + 1
                 /\ messages' = Append(msgs, Message("user", e))
                 /\ retry' = retry + 1
                 /\ tpc' = "attempt"
                 /\ UNCHANGED result
       ELSE \* console.error; return null; prepareTransform returns null
            /\ messages' = msgs
            /\ tpc' = "done"
            /\ result' = NullResult
            /\ UNCHANGED retry

\* the empty-schema and empty-data checks
ReturnNullOnEmpty ==
    /\ tpc = "entry"
    /\ SchemaEmpty(input) \/ DataEmpty(data)
    /\ tpc' = "done"
    /\ result' = NullResult
    /\ UNCHANGED <<fromCache, input, data, cached, valid, retry, messages, llmCalls,
                   dsQueries, attempts>>
    /\ UNCHANGED <<queueVars, callVars, synthVars>>

\* await datastore.getTransformConfigFromRequest(input, data, orgId)
QueryDatastore ==
    /\ tpc = "entry"
    /\ ~SchemaEmpty(input) /\ ~DataEmpty(data)
    /\ fromCache
    /\ dsQueries' = dsQueries + 1
    /\ tpc' = "lookup"
    /\ UNCHANGED <<fromCache, input, data, cached, valid, retry, messages, llmCalls,
                   attempts, result>>
    /\ UNCHANGED <<queueVars, callVars, synthVars>>

\* if (cached) return { ...cached, ...input }
CacheHit ==
    /\ tpc = "lookup"
    /\ cached.hit
    /\ tpc' = "done"
    /\ result' = ConfigResult(CachedAndInput(cached.config, input))
    /\ UNCHANGED <<fromCache, input, data, cached, valid, retry, messages, llmCalls,
                   dsQueries, attempts>>
    /\ UNCHANGED <<queueVars, callVars, synthVars>>

\* the cache was not asked or had nothing
PastCache ==
    \/ tpc = "entry" /\ ~SchemaEmpty(input) /\ ~DataEmpty(data) /\ ~fromCache
    \/ tpc = "lookup" /\ ~cached.hit

\* if (input.responseMapping) return {...}
ReturnSupplied ==
    /\ PastCache
    /\ Present(input, "responseMapping")
    /\ tpc' = "done"
    /\ result' = ConfigResult(SuppliedConfig(input))
    /\ UNCHANGED <<fromCache, input, data, cached, valid, retry, messages, llmCalls,
                   dsQueries, attempts>>
    /\ UNCHANGED <<queueVars, callVars, synthVars>>

\* generateMapping(input.responseSchema, data, input.instruction) is entered
GenerateStart ==
    /\ PastCache
    /\ ~Present(input, "responseMapping")
    /\ tpc' = "attempt"
    /\ retry' = 0
    /\ messages' = NoMessages
    /\ UNCHANGED <<fromCache, input, data, cached, valid, llmCalls, dsQueries, attempts,
                   result>>
    /\ UNCHANGED <<queueVars, callVars, synthVars>>

\* an attempt up to `await openai.chat.completions.create(...)`
AttemptCallsLlm ==
    /\ tpc = "attempt"
    /\ LET msgs == MessagesToSend(messages) IN
       /\ messages' = msgs
       /\ llmCalls' = Append(llmCalls, [messages |-> msgs, retry |-> retry])
    /\ tpc' = "llm"
    /\ UNCHANGED <<fromCache, input, data, cached, valid, retry, dsQueries, attempts, result>>
    /\ UNCHANGED <<queueVars, callVars, synthVars>>

\* createLLMClient() or the construction of the prompt throws
AttemptSetupFails ==
    /\ tpc = "attempt"
    /\ Catch("setup failed", messages)
    /\ UNCHANGED <<fromCache, input, data, cached, valid, llmCalls, dsQueries>>
    /\ UNCHANGED <<queueVars, callVars, synthVars>>

\* the completion request rejects
LlmRejects ==
    /\ tpc = "llm"
    /\ Catch("API Error", messages)
    /\ UNCHANGED <<fromCache, input, data, cached, valid, llmCalls, dsQueries>>
    /\ UNCHANGED <<queueVars, callVars, synthVars>>

\* the expressions a reply can carry, and a reply that is not JSON
Mappings == {"m1", "m2"}
Garbage == "garbage"
Replies == Mappings \cup {Garbage}

\* the completion resolves with the reply text c: push it, parse it, apply and
\* validate its expression
LlmReplies(c) ==
    /\ tpc = "llm"
    /\ LET msgs == Append(messages, Message("assistant", c)) IN
       IF c = Garbage
       THEN Catch("SyntaxError", msgs)
       ELSE IF ~Validates(c)
            THEN Catch("Validation failed", msgs)
            ELSE /\ messages' = msgs
                 /\ attempts' = Append(attempts, "ok")
                 /\ tpc' = "done"
                 /\ result' = ConfigResult(GeneratedConfig(input, c))
                 /\ UNCHANGED retry
    /\ UNCHANGED <<fromCache, input, data, cached, valid, llmCalls, dsQueries>>
    /\ UNCHANGED <<queueVars, callVars, synthVars>>

ReplyStep == \E c \in Replies : LlmReplies(c)

\* prepareTransform(datastore, fromCache, input, data, orgId) is entered
TransformStart(fc, in, d, c, v) ==
    /\ fromCache = fc
    /\ input = in
    /\ data = d
    /\ cached = c
    /\ valid = v
    /\ tpc = "entry"
    /\ retry = 0
    /\ messages = NoMessages
    /\ llmCalls = <<>>
    /\ dsQueries = 0
    /\ attempts = <<>>
    /\ result = NoResult

\* the inputs: TransformInput objects (instruction, responseSchema,
\* responseMapping, version), with properties absent, undefined or set
NoKeys == [k \in {} |-> ""]
SchemaFields == {NoKeys} \cup {"responseSchema" :> x : x \in {"undefined", "{}", "schema"}}
MappingFields == {NoKeys} \cup {"responseMapping" :> x : x \in {"undefined", "", "m1", "m2"}}
VersionFields == {NoKeys, "version" :> "v1"}
Inputs ==
    {NoKeys}
    \cup {("instruction" :> "instr") @@ sf @@ mf @@ vf :
            sf \in SchemaFields, mf \in MappingFields, vf \in VersionFields}

\* the data arguments
Datas ==
    {Undefined, Null, Num(0), Num(5), Str(<<>>), Str(<<"a">>), Arr(<<>>), Arr(<<Num(1)>>),
     EmptyObj, Obj("user", Str(<<"J">>))}

\* what the datastore holds for the request
Miss == [hit |-> FALSE, config |-> NoKeys]
Hit(c) == [hit |-> TRUE, config |-> c]
CachedConfigs ==
    {("id" :> "cached-id") @@ ("responseMapping" :> m) @@ ("createdAt" :> "then")
        @@ ("updatedAt" :> "then") @@ extra :
        m \in Mappings,
        extra \in {NoKeys, ("instruction" :> "old instr") @@ ("responseSchema" :> "old schema")
                              @@ ("version" :> "v0")}}
Lookups == {Miss} \cup {Hit(c) : c \in CachedConfigs}

\* the invocation reaches generateMapping
Generates(fc, in, d, c) ==
    /\ ~SchemaEmpty(in) /\ ~DataEmpty(d)
    /\ ~(fc /\ c.hit)
    /\ Field(in, "responseMapping") \in {"undefined", ""}

\* invocations that end without generateMapping, for every argument
DirectRuns ==
    \E fc \in BOOLEAN, in \in Inputs, d \in Datas, c \in Lookups :
        /\ ~Generates(fc, in, d, c)
        /\ TransformStart(fc, in, d, c, {"m1"})

\* invocations that reach generateMapping
GeneratingRuns ==
    \E fc \in BOOLEAN, c \in {Miss, Hit(("id" :> "cached-id") @@ ("responseMapping" :> "m2")
                                          @@ ("createdAt" :> "then") @@ ("updatedAt" :> "then"))},
       in \in {("instruction" :> "instr") @@ ("responseSchema" :> "schema"),
               ("instruction" :> "instr") @@ ("responseSchema" :> "schema")
                  @@ ("responseMapping" :> "")} :
        /\ Generates(fc, in, Obj("user", Str(<<"J">>)), c)
        /\ TransformStart(fc, in, Obj("user", Str(<<"J">>)), c, {"m1"})

InitTransform == QueueNew /\ CallIdle /\ SynthIdle /\ (DirectRuns \/ GeneratingRuns)

NextTransform ==
    \/ ReturnNullOnEmpty
    \/ QueryDatastore
    \/ CacheHit
    \/ ReturnSupplied
    \/ GenerateStart
    \/ AttemptCallsLlm
    \/ AttemptSetupFails
    \/ LlmRejects
    \/ ReplyStep

SpecTransform == InitTransform /\ [][NextTransform]_vars
\* every step of an invocation is eventually taken: the datastore and the
\* completion request settle
SpecTransformFair == SpecTransform /\ WF_vars(NextTransform)

(***************************************************************************)
(* prepareTransform / generateMapping: properties                          *)
(***************************************************************************)
Done == tpc = "done"
ReturnedConfig == Done /\ result.kind = "config"
\* the errors of an attempt that got as far as the completion request
LlmFailures == {"API Error", "SyntaxError", "Validation failed"}
\* the attempts that received a reply from the LLM
GotReply(e) == e \in {"SyntaxError", "Validation failed", "ok"}

\* C16: every config returned by prepareTransform (from the cache, from a
\* supplied responseMapping or from generateMapping) has a responseMapping
\* whose application to data validates against input.responseSchema.
C16_ReturnedMappingValidates ==
    ReturnedConfig => Field(result.config, "responseMapping") \in valid

\* C17: generateMapping makes at most 6 LLM calls (retry 0..5), ends, and
\* returns null when every attempt failed with an LLM error, an unparsable
\* reply, an expression error or a validation failure.
C17_AtMostSixCalls ==
    /\ Len(llmCalls) <= 6
    /\ retry <= 5
    /\ Len(attempts) <= 6
    /\ \A i \in 1..Len(llmCalls) : llmCalls[i].retry <= 5
C17_NullWhenAllFail ==
    (Done /\ Len(attempts) >= 1 /\ \A i \in 1..Len(attempts) : attempts[i] \in LlmFailures)
    => /\ result = NullResult
       /\ Len(llmCalls) = 6
C17_TerminatesWithinSix ==
    /\ [](C17_AtMostSixCalls /\ C17_NullWhenAllFail)
    /\ <>Done
C17_Witness ==
    /\ Done
    /\ result = NullResult
    /\ Len(llmCalls) = 6
    /\ {attempts[i] : i \in 1..Len(attempts)} = LlmFailures

\* C18: the messages of each LLM call extend those of the previous attempt by
\* the assistant's reply (when there was one) and a user message with that
\* attempt's error, which comes last; nothing is removed or reordered; the
\* first expression that validates is returned and no LLM call follows.
C18_MessagesGrow ==
    \A j \in 1..Len(llmCalls) :
        LET b == llmCalls[j].messages
            r == llmCalls[j].retry
        IN  /\ IsPrefix(FirstMessages, b)
            /\ r = 0 => b = FirstMessages
            /\ r > 0 => b[Len(b)] = Message("user", attempts[r])
            /\ (j > 1 /\ llmCalls[j - 1].retry = r - 1) =>
                  LET a == llmCalls[j - 1].messages IN
                  /\ IsPrefix(a, b)
                  /\ IF GotReply(attempts[r])
                     THEN /\ Len(b) = Len(a) + 2
                          /\ b[Len(a) + 1].role = "assistant"
                     ELSE Len(b) = Len(a) + 1
            /\ j > 1 => IsPrefix(llmCalls[j - 1].messages, b)
C18_FirstValidReturned ==
    \A i \in 1..Len(attempts) : attempts[i] = "ok" =>
          /\ i = Len(attempts)
          /\ Done
          /\ result.kind = "config"
          /\ messages[Len(messages)] = Message("assistant", result.config["responseMapping"])
          /\ result.config["responseMapping"] \in valid
C18_NoCallOnceDone == Done => llmCalls' = llmCalls
C18_RetryMessages ==
    [](C18_MessagesGrow /\ C18_FirstValidReturned) /\ [][C18_NoCallOnceDone]_vars
C18_Witness ==
    /\ ReturnedConfig
    /\ attempts = <<"API Error", "Validation failed", "ok">>
    /\ Len(llmCalls) = 3
    /\ Len(llmCalls[3].messages) = 5

\* C19: with a missing or empty responseSchema, or with data that is absent,
\* an empty array or an object without keys, prepareTransform returns null
\* and neither the datastore nor the LLM is called, whatever fromCache and
\* input.responseMapping are.
C19_EmptyArguments ==
    \/ "responseSchema" \notin DOMAIN input
    \/ input["responseSchema"] \in {"undefined", "{}"}
    \/ data.t \in {"undefined", "null", "emptyobj"}
    \/ data.t = "arr" /\ Len(data.v) = 0
C19_EmptyReturnsNull ==
    (tpc # "idle" /\ C19_EmptyArguments) =>
        /\ dsQueries = 0
        /\ llmCalls = <<>>
        /\ tpc \in {"entry", "done"}
        /\ Done => result = NullResult
C19_Witness ==
    /\ Done
    /\ result = NullResult
    /\ fromCache
    /\ cached.hit
    /\ Present(input, "responseMapping")
    /\ Present(input, "responseSchema") /\ input["responseSchema"] # "{}"
    /\ data.t = "emptyobj"

\* C20: with fromCache and a datastore hit the result is the cached config
\* overlaid with the input (the input's value on every shared key, the
\* cached id kept) and no LLM call is made; without fromCache the datastore
\* is never queried.
C20_CacheOverlay ==
    /\ (Done /\ dsQueries >= 1 /\ cached.hit) =>
          /\ result.kind = "config"
          /\ DOMAIN result.config = DOMAIN cached.config \cup DOMAIN input
          /\ \A k \in DOMAIN input : result.config[k] = input[k]
          /\ \A k \in DOMAIN cached.config \ DOMAIN input :
                result.config[k] = cached.config[k]
          /\ result.config["id"] = cached.config["id"]
          /\ llmCalls = <<>>
    /\ (dsQueries >= 1 /\ cached.hit) => llmCalls = <<>>
    /\ (tpc # "idle" /\ ~fromCache) => dsQueries = 0
    /\ dsQueries <= 1
C20_Witness ==
    /\ Done
    /\ fromCache
    /\ cached.hit
    /\ result.kind = "config"
    /\ "responseMapping" \in DOMAIN input
    /\ result.config["responseMapping"] = input["responseMapping"]
    /\ result.config["responseMapping"] # cached.config["responseMapping"]
    /\ "instruction" \in DOMAIN cached.config
    /\ result.config["id"] = "cached-id"

\* C21: with a supplied responseMapping, a non-empty schema, non-empty data
\* and no cache hit, prepareTransform returns a config with exactly that
\* responseMapping and the input's responseSchema, with id, createdAt and
\* updatedAt set, and makes no LLM call.
C21_Supplied ==
    /\ tpc # "idle"
    /\ "responseMapping" \in DOMAIN input
    /\ input["responseMapping"] \in {"m1", "m2"}
    /\ ~C19_EmptyArguments
    /\ data.t \in {"num", "str"} => Truthy(data)
    /\ ~(fromCache /\ cached.hit)
C21_SuppliedAccepted ==
    C21_Supplied =>
        /\ llmCalls = <<>>
        /\ tpc \in {"entry", "lookup", "done"}
        /\ Done =>
              /\ result.kind = "config"
              /\ result.config["responseMapping"] = input["responseMapping"]
              /\ result.config["responseSchema"] = input["responseSchema"]
              /\ result.config["id"] = Hash
              /\ result.config["createdAt"] = Now
              /\ result.config["updatedAt"] = Now
C21_Witness ==
    /\ Done
    /\ C21_Supplied
    /\ fromCache
    /\ dsQueries = 1
    /\ input["responseMapping"] \notin valid
    /\ "version" \in DOMAIN input
    /\ result.kind = "config"
    /\ result.config["responseMapping"] = input["responseMapping"]

(***************************************************************************)
(* LLM client: the model name and the temperature of a completion request   *)
(***************************************************************************)
\* String.prototype.includes on strings given as their characters
Includes(cs, sub) ==
    \E i \in 1..(Len(cs) - Len(sub) + 1) : SubSeq(cs, i, i + Len(sub) - 1) = sub

Gpt4o == <<"g", "p", "t", "-", "4", "o">>
O3 == <<"o", "3">>
Gpt4 == <<"g", "p", "t", "-", "4">>
O3Mini == <<"o", "3", "-", "m", "i", "n", "i">>
Gpt4Turbo == <<"g", "p", "t", "-", "4", "-", "t", "u", "r", "b", "o">>
OpenRouterGpt4o == <<"o", "p", "e", "n", "a", "i", "/", "g", "p", "t", "-", "4", "o">>
Gpt35Turbo == <<"g", "p", "t", "-", "3", ".", "5", "-", "t", "u", "r", "b", "o">>

\* the names getModelName() can return: the value of OPENAI_MODEL,
\* SCHEMA_GENERATION_MODEL, OPENROUTER_MODEL or OPENROUTER_SCHEMA_MODEL, or the
\* OpenRouter default "openai/gpt-4o"
ModelNames == {Gpt4o, O3Mini, Gpt4Turbo, OpenRouterGpt4o, Gpt35Turbo}

\* String(modelName).includes("gpt-4o") || String(modelName).includes("o3")
IsOSeriesModel(name) == Includes(name, Gpt4o) \/ Includes(name, O3)

Min(a, b) == IF a < b THEN a ELSE b

\* the temperature property of a completion request, in hundredths;
\* `undefined` is a request without a temperature
NoTemperature == [sent |-> FALSE, hundredths |-> 0]
Temperature(h) == [sent |-> TRUE, hundredths |-> h]

(***************************************************************************)
(* generateSchema and attemptSchemaGeneration                              *)
(***************************************************************************)
\* const MAX_RETRIES = 3
MaxSchemaRetries == 3

\* let temperature = 0; if (isOSeriesModel(modelName) && retry > 0)
\*   temperature = Math.min(0.3 * retry, 1.0)
\* temperature: modelName === 'o3-mini' ? 0
\*            : (modelName.startsWith('gpt-4') ? temperature : undefined)
SchemaTemperature(name, r) ==
    LET temperature == IF IsOSeriesModel(name) /\ r > 0 THEN Min(30 * r, 100) ELSE 0 IN
    IF name = O3Mini
    THEN Temperature(0)
    ELSE IF StartsWith(name, Gpt4) THEN Temperature(temperature) ELSE NoTemperature

\* the two messages generateSchema starts with
SchemaFirstMessages ==
    <<Message("system", <<"GENERATE_SCHEMA_PROMPT">>),
      Message("user", <<"Instruction: ", "instruction", "\n\nResponse Data: ", "responseData">>)>>
\* the message pushed before a retry
SchemaRetryMessage(e) ==
    Message("user", <<"The previous attempt failed with error: ", e, ". Please try again.">>)

\* the text of a completion, as the value JSON.parse makes of it; NotJson is
\* a text JSON.parse throws on
NotJson == [t |-> "notjson", v |-> 0]
PlainSchema == Obj("type", Str(<<"object">>))
\* a schema with a reference the validator cannot resolve
UnresolvableSchema == Obj("$ref", Str(<<"#/definitions/missing">>))
SchemaReplies ==
    {NotJson, EmptyObj, PlainSchema, UnresolvableSchema,
     Obj("jsonSchema", PlainSchema), Obj("jsonSchema", EmptyObj),
     Obj("jsonSchema", Null), Obj("jsonSchema", UnresolvableSchema)}

\* if (generatedSchema?.jsonSchema) generatedSchema = generatedSchema.jsonSchema
UnwrapNever(g) == g
Unwrap(g) == IF Truthy(Get(g, "jsonSchema")) THEN Get(g, "jsonSchema") ELSE g
\* !generatedSchema || Object.keys(generatedSchema).length === 0
NoSchema(g) ==
    \/ ~Truthy(g)
    \/ g.t \in {"emptyobj", "num"}
    \/ g.t \in {"arr", "str"} /\ Len(g.v) = 0
\* validator.validate({}, generatedSchema) throws a SchemaError
ValidatorThrows(g) == g.t = "obj" /\ g.v.key = "$ref"

\* what generateSchema resolves or rejects with
NoSchemaResult == [kind |-> "none", schema |-> Undefined, error |-> ""]
SchemaReturned(g) == [kind |-> "returned", schema |-> g, error |-> ""]
SchemaThrown(e) == [kind |-> "thrown", schema |-> Undefined, error |-> e]

\* generateSchema(instruction, responseData) is entered, up to the first test
\* of the while loop
SchemaStart(name) ==
    /\ modelName = name
    /\ spc = "attempt"
    /\ retryCount = 0
    /\ schemaMessages = SchemaFirstMessages
    /\ schemaCalls = <<>>
    /\ schemaReplies = <<>>
    /\ schemaAttempts = <<>>
    /\ schemaResult = NoSchemaResult

\* the catch block of generateSchema for an attempt that failed with error e,
\* and the test of the while loop that follows it
SchemaCatch(e) ==
    /\ schemaAttempts' = Append(schemaAttempts, e)
    /\ retryCount' = retryCount + 1
    /\ IF retryCount + 1 > MaxSchemaRetries
       THEN /\ spc' = "done"
            /\ schemaResult' = SchemaThrown(e)
            /\ UNCHANGED schemaMessages
       ELSE /\ schemaMessages' = Append(schemaMessages, SchemaRetryMessage(e))
            /\ spc' = "attempt"
            /\ UNCHANGED schemaResult

\* attemptSchemaGeneration(messages, retryCount) up to
\* `await openai.chat.completions.create(completionRequest)`
SchemaCallsLlm ==
    /\ spc = "attempt"
    /\ retryCount <= MaxSchemaRetries
    /\ schemaCalls' = Append(schemaCalls,
                             [model |-> modelName,
                              temperature |-> SchemaTemperature(modelName, retryCount),
                              messages |-> schemaMessages,
                              retry |-> retryCount])
    /\ spc' = "llm"
    /\ UNCHANGED <<modelName, retryCount, schemaMessages, schemaReplies, schemaAttempts,
                   schemaResult>>
    /\ UNCHANGED <<queueVars, callVars, transformVars, apiVars, navVars, llmVars>>

\* createLLMClient() throws (no API key in the environment)
SchemaSetupFails ==
    /\ spc = "attempt"
    /\ retryCount <= MaxSchemaRetries
    /\ SchemaCatch("setup failed")
    /\ UNCHANGED <<modelName, schemaCalls, schemaReplies>>
    /\ UNCHANGED <<queueVars, callVars, transformVars, apiVars, navVars, llmVars>>

\* the completion request rejects
SchemaLlmRejects ==
    /\ spc = "llm"
    /\ SchemaCatch("API Error")
    /\ UNCHANGED <<modelName, schemaCalls, schemaReplies>>
    /\ UNCHANGED <<queueVars, callVars, transformVars, apiVars, navVars, llmVars>>

\* the completion resolves with the text c: parse, unwrap, test, validate
SchemaLlmReplies(c) ==
    /\ spc = "llm"
    /\ schemaReplies' = Append(schemaReplies, c)
    /\ IF c = NotJson
       THEN SchemaCatch("SyntaxError")
       ELSE IF NoSchema(Unwrap(c))
            THEN SchemaCatch("No schema generated")
            ELSE IF ValidatorThrows(Unwrap(c))
                 THEN SchemaCatch("SchemaError")
                 ELSE /\ schemaAttempts' = Append(schemaAttempts, "ok")
                      /\ spc' = "done"
                      /\ schemaResult' = SchemaReturned(Unwrap(c))
                      /\ UNCHANGED <<retryCount, schemaMessages>>
    /\ UNCHANGED <<modelName, schemaCalls>>
    /\ UNCHANGED <<queueVars, callVars, transformVars, apiVars, navVars, llmVars>>

SchemaReplyStep == \E c \in SchemaReplies : SchemaLlmReplies(c)

NextSchema ==
    \/ SchemaCallsLlm
    \/ SchemaSetupFails
    \/ SchemaLlmRejects
    \/ SchemaReplyStep

(***************************************************************************)
(* prepareEndpoint and generateApiConfig                                   *)
(***************************************************************************)
\* crypto.randomUUID(): any of the identifiers it can produce
Uuids == {"uuid1", "uuid2"}

\* `a || b` on property values: undefined and "" are falsy
OrElseSecond(a, b) == IF b \notin {"undefined", ""} THEN b ELSE a
OrElse(a, b) == IF a \notin {"undefined", ""} THEN a ELSE b

\* the ApiInput of the caller
PaginationInputs == {NoKeys, "pagination" :> "callerPagination"}
DataPathInputs == {NoKeys} \cup {"dataPath" :> x : x \in {"", "callerPath"}}
OtherInputs ==
    {NoKeys,
     ("documentationUrl" :> "callerDocs") @@ ("responseSchema" :> "callerSchema")
        @@ ("responseMapping" :> "callerMapping")}
ApiInputs ==
    {("instruction" :> "instruction") @@ ("urlHost" :> "callerHost") @@ p @@ d @@ o :
        p \in PaginationInputs, d \in DataPathInputs, o \in OtherInputs}

\* the text of a completion and the object JSON.parse makes of it
ApiGarbage == [json |-> FALSE, text |-> "garbage", config |-> NoKeys]
FullReply ==
    [json |-> TRUE, text |-> "full",
     config |-> ("urlHost" :> "llmHost") @@ ("urlPath" :> "llmPath") @@ ("method" :> "GET")
                  @@ ("queryParams" :> "llmQuery") @@ ("headers" :> "llmHeaders")
                  @@ ("body" :> "llmBody") @@ ("authentication" :> "HEADER")
                  @@ ("pagination" :> "llmPagination") @@ ("dataPath" :> "llmDataPath")
                  @@ ("documentationUrl" :> "llmDocs") @@ ("responseSchema" :> "llmSchema")
                  @@ ("responseMapping" :> "llmMapping") @@ ("instruction" :> "llmInstruction")
                  @@ ("id" :> "llmId")]
BareReply ==
    [json |-> TRUE, text |-> "bare",
     config |-> ("urlHost" :> "llmHost") @@ ("urlPath" :> "llmPath") @@ ("method" :> "GET")
                  @@ ("authentication" :> "NONE")]
ApiReplies == {ApiGarbage, FullReply, BareReply}

\* apiCallConfig = {...endpointInput, createdAt: currentTime,
\*                  updatedAt: currentTime, id: crypto.randomUUID()}
ApiCallConfig(in, u) ==
    Spread(in, ("createdAt" :> Now) @@ ("updatedAt" :> Now) @@ ("id" :> u))

\* [systemMessage, initialUserMessage]
ApiFirstMessages ==
    <<Message("system", <<"API_PROMPT">>),
      Message("user", <<"Generate API configuration for the following:", "instruction",
                        "baseUrl", "providedInfo", "vars", "documentation">>)>>
\* API_ERROR_HANDLING_USER_PROMPT with {error} replaced by lastError and
\* {previous_config} by JSON.stringify(apiConfig)
SubsequentUserMessage(e) ==
    Message("user", <<"API_ERROR_HANDLING_USER_PROMPT", e, "apiConfig">>)

\* previousMessages.length > 0 ? [...previousMessages, subsequentUserMessage]
\*                             : [systemMessage, initialUserMessage]
ApiMessages(prev, e) ==
    IF Len(prev) > 0 THEN Append(prev, SubsequentUserMessage(e)) ELSE ApiFirstMessages

\* twice retryCount, where retryCount is
\* previousMessages.length > 0 ? (messages.length - numInitialMessages) / 2 : 0
TwiceRetryCountOfPrior(prev, msgs) == IF Len(prev) > 0 THEN Len(prev) - 2 ELSE 0
TwiceRetryCount(prev, msgs) == IF Len(prev) > 0 THEN Len(msgs) - 2 ELSE 0

\* isOSeriesModel(modelName) ? undefined : Math.min(retryCount * 0.1, 1)
EndpointTemperature(name, twice) ==
    IF IsOSeriesModel(name) THEN NoTemperature ELSE Temperature(Min(5 * twice, 100))

\* the array the caller passed as previousMessages after messages.push(...):
\* messages is a new array in both branches, so the push does not reach it
CallerArrayShared(prev, msgs) == msgs
CallerArray(prev, msgs) == prev

\* the config generateApiConfig returns
ReturnedApiConfig(api, g) ==
    ("instruction" :> Field(api, "instruction"))
    @@ ("urlHost" :> Field(g, "urlHost"))
    @@ ("urlPath" :> Field(g, "urlPath"))
    @@ ("method" :> Field(g, "method"))
    @@ ("queryParams" :> Field(g, "queryParams"))
    @@ ("headers" :> Field(g, "headers"))
    @@ ("body" :> Field(g, "body"))
    @@ ("authentication" :> Field(g, "authentication"))
    @@ ("pagination" :> OrElse(Field(api, "pagination"), Field(g, "pagination")))
    @@ ("dataPath" :> OrElse(Field(api, "dataPath"), Field(g, "dataPath")))
    @@ ("documentationUrl" :> Field(api, "documentationUrl"))
    @@ ("responseSchema" :> Field(api, "responseSchema"))
    @@ ("responseMapping" :> Field(api, "responseMapping"))
    @@ ("createdAt" :> OrElse(Field(api, "createdAt"), Now))
    @@ ("updatedAt" :> Now)
    @@ ("id" :> Field(api, "id"))

\* what prepareEndpoint resolves or rejects with
NoApiResult == [kind |-> "none", config |-> NoKeys, messages |-> <<>>, reply |-> "", error |-> ""]
ApiReturned(c, msgs, txt) ==
    [kind |-> "returned", config |-> c, messages |-> msgs, reply |-> txt, error |-> ""]
ApiThrown(e) ==
    [kind |-> "thrown", config |-> NoKeys, messages |-> <<>>, reply |-> "", error |-> e]

\* the caller of prepareEndpoint: the texts the LLM answers with, the errors
\* the caller observes when it executes a returned config, the number of
\* times it re-invokes prepareEndpoint with the returned log, and the number
\* of times it starts anew
Session(replies, errors, length, anew) ==
    [replies |-> replies, errors |-> errors, length |-> length, anew |-> anew]

\* prepareEndpoint(endpointInput, payload, credentials) is entered with the
\* defaults lastError = null and previousMessages = []
ApiStart(in, name, s) ==
    /\ modelName = name
    /\ epc = "entry"
    /\ endpointInput = in
    /\ session = s
    /\ previousMessages = <<>>
    /\ lastError = "null"
    /\ apiConfig = NoKeys
    /\ apiMessages = <<>>
    /\ apiCalls = <<>>
    /\ chain = 0
    /\ restarts = 0
    /\ ids = {}
    /\ apiResult = NoApiResult

\* prepareEndpoint up to `await getDocumentation(...)`
PrepareApiConfig(u) ==
    /\ epc = "entry"
    /\ apiConfig' = ApiCallConfig(endpointInput, u)
    /\ epc' = "documentation"
    /\ UNCHANGED <<modelName, endpointInput, session, previousMessages, lastError,
                   apiMessages, apiCalls, chain, restarts, ids, apiResult>>
    /\ UNCHANGED <<queueVars, callVars, transformVars, schemaVars, navVars, llmVars>>

\* generateApiConfig up to `await openai.chat.completions.create(...)`
GenerateCallsLlm ==
    /\ epc = "documentation"
    /\ LET msgs == ApiMessages(previousMessages, lastError)
           twice == TwiceRetryCount(previousMessages, msgs) IN
       /\ apiMessages' = msgs
       /\ apiCalls' = Append(apiCalls,
                             [model |-> modelName,
                              temperature |-> EndpointTemperature(modelName, twice),
                              twiceRetryCount |-> twice,
                              prior |-> previousMessages,
                              messages |-> msgs,
                              chain |-> chain])
    /\ epc' = "llm"
    /\ UNCHANGED <<modelName, endpointInput, session, previousMessages, lastError,
                   apiConfig, chain, restarts, ids, apiResult>>
    /\ UNCHANGED <<queueVars, callVars, transformVars, schemaVars, navVars, llmVars>>

\* createLLMClient() throws: prepareEndpoint rejects
ApiSetupFails ==
    /\ epc = "documentation"
    /\ epc' = "thrown"
    /\ apiResult' = ApiThrown("setup failed")
    /\ UNCHANGED <<modelName, endpointInput, session, previousMessages, lastError,
                   apiConfig, apiMessages, apiCalls, chain, restarts, ids>>
    /\ UNCHANGED <<queueVars, callVars, transformVars, schemaVars, navVars, llmVars>>

\* the completion request rejects: prepareEndpoint rejects
ApiLlmRejects ==
    /\ epc = "llm"
    /\ epc' = "thrown"
    /\ apiResult' = ApiThrown("API Error")
    /\ UNCHANGED <<modelName, endpointInput, session, previousMessages, lastError,
                   apiConfig, apiMessages, apiCalls, chain, restarts, ids>>
    /\ UNCHANGED <<queueVars, callVars, transformVars, schemaVars, navVars, llmVars>>

\* the completion resolves with the text c: parse it, push it, return
ApiLlmReplies(c) ==
    /\ epc = "llm"
    /\ IF ~c.json
       THEN /\ epc' = "thrown"
            /\ apiResult' = ApiThrown("SyntaxError")
            /\ UNCHANGED <<previousMessages, apiMessages, ids>>
       ELSE LET msgs == Append(apiMessages, Message("assistant", <<c.text>>))
                cfg == ReturnedApiConfig(apiConfig, c.config) IN
            /\ apiMessages' = msgs
            /\ previousMessages' = CallerArray(previousMessages, msgs)
            /\ apiResult' = ApiReturned(cfg, msgs, c.text)
            /\ ids' = ids \cup {cfg["id"]}
            /\ epc' = "returned"
    /\ UNCHANGED <<modelName, endpointInput, session, lastError, apiConfig, apiCalls,
                   chain, restarts>>
    /\ UNCHANGED <<queueVars, callVars, transformVars, schemaVars, navVars, llmVars>>

\* the caller executed the returned config, observed the error e and calls
\* prepareEndpoint(endpointInput, payload, credentials, e, messages) with the
\* log it was returned
Reinvoke(e) ==
    /\ epc = "returned"
    /\ chain < session.length
    /\ previousMessages' = apiResult.messages
    /\ lastError' = e
    /\ chain' = chain + 1
    /\ epc' = "entry"
    /\ UNCHANGED <<modelName, endpointInput, session, apiConfig, apiMessages, apiCalls,
                   restarts, ids, apiResult>>
    /\ UNCHANGED <<queueVars, callVars, transformVars, schemaVars, navVars, llmVars>>

\* the caller calls prepareEndpoint(endpointInput, payload, credentials) anew
Restart ==
    /\ epc \in {"returned", "thrown"}
    /\ restarts < session.anew
    /\ previousMessages' = <<>>
    /\ lastError' = "null"
    /\ chain' = 0
    /\ restarts' = restarts + 1
    /\ epc' = "entry"
    /\ UNCHANGED <<modelName, endpointInput, session, apiConfig, apiMessages, apiCalls,
                   ids, apiResult>>
    /\ UNCHANGED <<queueVars, callVars, transformVars, schemaVars, navVars, llmVars>>

PrepareStep == \E u \in Uuids : PrepareApiConfig(u)
ApiReplyStep == \E c \in session.replies : ApiLlmReplies(c)
ReinvokeStep == \E e \in session.errors : Reinvoke(e)

\* short sessions over every input, sessions of a caller that starts anew, and
\* long ones that take retryCount past the point where the temperature stops
\* growing
ShortSessions ==
    \E in \in ApiInputs :
        ApiStart(in, Gpt4Turbo, Session(ApiReplies, {"HTTP 404"}, MaxChain, 0))
AnewSessions ==
    \E in \in ApiInputs, name \in {Gpt4o, Gpt4Turbo} :
        ApiStart(in, name, Session(ApiReplies, {}, 0, MaxRestarts))
LongSessions ==
    \E name \in ModelNames :
        ApiStart(("instruction" :> "instruction") @@ ("urlHost" :> "callerHost"), name,
                 Session({FullReply}, {"HTTP 404"}, LongChain, 0))

InitSchema == QueueNew /\ CallIdle /\ TransformIdle /\ ApiIdle /\ NavIdle /\ LlmIdle
              /\ \E name \in ModelNames : SchemaStart(name)
InitEndpoint == QueueNew /\ CallIdle /\ TransformIdle /\ SchemaIdle /\ NavIdle /\ LlmIdle
                /\ (ShortSessions \/ AnewSessions \/ LongSessions)

NextEndpoint ==
    \/ PrepareStep
    \/ GenerateCallsLlm
    \/ ApiSetupFails
    \/ ApiLlmRejects
    \/ ApiReplyStep
    \/ ReinvokeStep
    \/ Restart

SpecSchema == InitSchema /\ [][NextSchema]_vars
SpecEndpoint == InitEndpoint /\ [][NextEndpoint]_vars

(***************************************************************************)
(* Properties of generateSchema and prepareEndpoint                        *)
(***************************************************************************)
SchemaFailures(n) == \A i \in 1..n : schemaAttempts[i] # "ok"
LastSchemaReply == schemaReplies[Len(schemaReplies)]

\* C22: generateSchema makes at most 4 LLM calls; each call after a failed
\* attempt ends with a user message that contains that attempt's error; when
\* the fourth attempt fails too its error is thrown; the first successful
\* attempt ends the invocation and its schema, taken out of `jsonSchema` when
\* wrapped, is returned.
C22_RetriesThenThrowsOrReturns ==
    /\ Len(schemaCalls) <= MaxSchemaRetries + 1
    /\ Len(schemaAttempts) <= MaxSchemaRetries + 1
    /\ Len(schemaCalls) <= Len(schemaAttempts) + (IF spc = "llm" THEN 1 ELSE 0)
    /\ \A k \in 1..Len(schemaCalls) :
          LET c == schemaCalls[k] IN
          c.retry >= 1 =>
              LET m == c.messages[Len(c.messages)] IN
              /\ schemaAttempts[c.retry] # "ok"
              /\ m.role = "user"
              /\ \E i \in 1..Len(m.content) : m.content[i] = schemaAttempts[c.retry]
    /\ spc # "done" =>
          /\ SchemaFailures(Len(schemaAttempts))
          /\ Len(schemaAttempts) <= MaxSchemaRetries
          /\ schemaResult.kind = "none"
    /\ spc = "done" =>
          IF SchemaFailures(Len(schemaAttempts))
          THEN /\ Len(schemaAttempts) = MaxSchemaRetries + 1
               /\ schemaResult.kind = "thrown"
               /\ schemaResult.error = schemaAttempts[MaxSchemaRetries + 1]
          ELSE /\ SchemaFailures(Len(schemaAttempts) - 1)
               /\ schemaResult.kind = "returned"
               /\ LET r == LastSchemaReply IN
                  IF r.t = "obj" /\ r.v.key = "jsonSchema" /\ Truthy(r.v.val)
                  THEN schemaResult.schema = r.v.val
                  ELSE schemaResult.schema = r
C22_Witness ==
    /\ spc = "done"
    /\ Len(schemaCalls) = MaxSchemaRetries + 1
    /\ schemaAttempts = <<"SyntaxError", "No schema generated", "API Error", "ok">>
    /\ LastSchemaReply = Obj("jsonSchema", PlainSchema)
    /\ schemaResult = SchemaReturned(PlainSchema)

\* C23: a completion request carries no temperature exactly when the model
\* name contains gpt-4o or o3, in every attempt of every synthesizer.
C23_NoTemperatureForReasoning ==
    /\ \A k \in 1..Len(schemaCalls) :
          IsOSeriesModel(schemaCalls[k].model) <=> ~schemaCalls[k].temperature.sent
    /\ \A k \in 1..Len(apiCalls) :
          IsOSeriesModel(apiCalls[k].model) <=> ~apiCalls[k].temperature.sent

\* C24: the configs one caller is returned for the same input and payload all
\* carry the same id.
C24_SameId == Cardinality(ids) <= 1

\* C25: the n-th invocation in a row that is passed the log of the one before
\* computes retryCount = n and, for a model that is not a reasoning model,
\* sends the temperature min(0.1 * n, 1.0); the invocation without prior
\* messages computes 0 and sends 0.
C25_RetryCountAndTemperature ==
    \A k \in 1..Len(apiCalls) :
        LET c == apiCalls[k] IN
        /\ c.twiceRetryCount = 2 * c.chain
        /\ ~IsOSeriesModel(c.model) =>
              c.temperature = Temperature(IF 10 * c.chain < 100 THEN 10 * c.chain ELSE 100)
        /\ c.chain = 0 <=> c.prior = <<>>
C25_Witness ==
    /\ \E k \in 1..Len(apiCalls) :
          /\ apiCalls[k].chain = 3
          /\ apiCalls[k].model = Gpt35Turbo
          /\ apiCalls[k].temperature = Temperature(30)
    /\ \E k \in 1..Len(apiCalls) :
          /\ apiCalls[k].chain = 11
          /\ apiCalls[k].temperature = Temperature(100)

\* the object the LLM answered the last invocation with
LastReplyConfig == (CHOOSE c \in ApiReplies : c.text = apiResult.reply).config
CallerFixed == {"documentationUrl", "responseSchema", "responseMapping"}

\* C26 (as stated): pagination and dataPath of the returned config are the
\* caller's whenever the input carries them and the LLM's otherwise;
\* documentationUrl, responseSchema and responseMapping are the caller's.
C26_Original ==
    epc = "returned" =>
        /\ \A k \in {"pagination", "dataPath"} :
              apiResult.config[k] = IF k \in DOMAIN endpointInput
                                    THEN endpointInput[k]
                                    ELSE Field(LastReplyConfig, k)
        /\ \A k \in CallerFixed : apiResult.config[k] = Field(endpointInput, k)
\* C26 (amended): pagination and dataPath of the returned config are the
\* caller's whenever the input carries a non-empty value for them and the
\* LLM's otherwise; documentationUrl, responseSchema and responseMapping are
\* the caller's, whatever the LLM returns.
C26_Amended ==
    epc = "returned" =>
        /\ \A k \in {"pagination", "dataPath"} :
              apiResult.config[k] = IF Field(endpointInput, k) \notin {"undefined", ""}
                                    THEN endpointInput[k]
                                    ELSE Field(LastReplyConfig, k)
        /\ \A k \in CallerFixed : apiResult.config[k] = Field(endpointInput, k)
C26_Witness ==
    /\ epc = "returned"
    /\ apiResult.reply = "full"
    /\ Field(endpointInput, "pagination") = "callerPagination"
    /\ Field(endpointInput, "dataPath") = "callerPath"
    /\ Field(endpointInput, "responseMapping") = "callerMapping"
    /\ apiResult.config["pagination"] = "callerPagination"
    /\ apiResult.config["dataPath"] = "callerPath"
    /\ apiResult.config["responseMapping"] = "callerMapping"

\* C27: without prior messages the returned log is [system, user, assistant];
\* with prior messages it is the prior messages, unchanged and in order,
\* followed by one user message with the error and one assistant message; the
\* array the caller passed is as it was; after k invocations in a row the log
\* has 2k + 1 messages.
C27_LogGrows ==
    epc = "returned" =>
        LET c == apiCalls[Len(apiCalls)]
            log == apiResult.messages
            n == Len(log) IN
        /\ previousMessages = c.prior
        /\ c.prior = <<>> =>
              /\ n = 3
              /\ <<log[1].role, log[2].role, log[3].role>> = <<"system", "user", "assistant">>
        /\ c.prior # <<>> =>
              /\ n = Len(c.prior) + 2
              /\ SubSeq(log, 1, Len(c.prior)) = c.prior
              /\ log[n - 1].role = "user"
              /\ \E i \in 1..Len(log[n - 1].content) : log[n - 1].content[i] = lastError
        /\ log[n] = Message("assistant", <<apiResult.reply>>)
        /\ n = 2 * (chain + 1) + 1
C27_Witness ==
    /\ epc = "returned"
    /\ chain = 2
    /\ Len(previousMessages) = 5
    /\ Len(apiResult.messages) = 7
    /\ apiResult.messages[6].role = "user"
    /\ apiResult.messages[7].role = "assistant"

\* C28: whenever a request is issued, every placeholder of every interpolated
\* field (urlHost, urlPath, header values, query values, body) is a key of
\* payload or credentials or one of page, offset, limit.
AllPlaceholders ==
    Names(endpoint.urlHost) \cup Names(endpoint.urlPath) \cup Names(endpoint.headers)
        \cup Names(endpoint.queryParams) \cup Names(endpoint.body.vars)
C28_RequestsAreBound ==
    Len(requests) >= 1 =>
        AllPlaceholders \subseteq (DOMAIN payload \cup DOMAIN credentials
                                     \cup {"page", "offset", "limit"})

\* C29: the returned data is the accumulated element when exactly one was
\* accumulated (also when the only page was a one-element array), and the
\* array of the accumulated elements otherwise (empty when there are none).
C29_SingleUnwrapped ==
    pc = "returned" =>
        /\ outcome.kind = "returned"
        /\ Len(allResults) = 1 => outcome.data = allResults[1]
        /\ Len(allResults) # 1 => outcome.data = Arr(allResults)
        /\ (Len(pages) = 1 /\ pages[1].t = "arr" /\ Len(pages[1].v) = 1)
              => outcome.data = pages[1].v[1]
        /\ (\A k \in 1..Len(pages) : pages[k].t = "arr" /\ Len(pages[k].v) = 0)
              => outcome.data = Arr(<<>>)
C29_Witness ==
    /\ pc = "returned"
    /\ Len(pages) = 1
    /\ pages[1] = Arr(<<Num(2)>>)
    /\ Paginated
    /\ outcome.data = Num(2)

\* C30: when the value extracted from the first response is not an array,
\* no further request is issued and exactly that value is returned.
C30_FirstNotArray ==
    (Len(pages) >= 1 /\ pages[1].t # "arr") =>
        /\ Len(requests) = 1
        /\ Len(pages) = 1
        /\ pc = "returned" => outcome.data = pages[1]

(***************************************************************************)
(* dataPath navigation: processFile and callEndpoint on the same document  *)
(***************************************************************************)
NotNavigatedFile == [kind |-> "none", value |-> Undefined]
NotNavigatedCall == [kind |-> "none", value |-> Undefined, dataPathSuccess |-> TRUE]

\* processFile: for (const part of pathParts) responseJSON = responseJSON[part] || responseJSON
RECURSIVE FileWalk(_, _)
FileWalk(x, parts) ==
    IF Len(parts) = 0 THEN x
    ELSE FileWalk(IF Truthy(Get(x, Head(parts))) THEN Get(x, Head(parts)) ELSE x,
                  Tail(parts))

\* processFile after `await parseFile(data, extractConfig.fileType)`
ProcessFileNavigate ==
    /\ fileNav.kind = "none"
    /\ fileNav' = IF WalkThrows(document, dataPath)
                  THEN [kind |-> "threw", value |-> Undefined]
                  ELSE [kind |-> "value", value |-> FileWalk(document, dataPath)]
    /\ UNCHANGED <<document, dataPath, callNav>>
    /\ UNCHANGED <<queueVars, callVars, transformVars, modelName, schemaVars, apiVars, llmVars>>

\* callEndpoint's lines 382-398 on response.data
CallEndpointNavigate ==
    /\ callNav.kind = "none"
    /\ callNav' = IF WalkThrows(document, dataPath)
                  THEN [kind |-> "threw", value |-> Undefined, dataPathSuccess |-> TRUE]
                  ELSE [kind |-> "value", value |-> Walk(document, dataPath).value,
                        dataPathSuccess |-> Walk(document, dataPath).dataPathSuccess]
    /\ UNCHANGED <<document, dataPath, fileNav>>
    /\ UNCHANGED <<queueVars, callVars, transformVars, modelName, schemaVars, apiVars, llmVars>>

\* the documents and dataPaths navigated
NavItems == Arr(<<Num(1), Num(2)>>)
Documents ==
    {Arr(<<>>), NavItems, Num(0), Num(7), Null, Str(<<"o", "k">>)}
    \cup {Obj("data", x) : x \in {NavItems, Arr(<<>>), Num(0), Num(7), Null, Str(<<>>),
                                  Obj("items", NavItems), Obj("items", Num(0)),
                                  Obj("data", Num(7))}}
    \cup {Obj("items", NavItems), Obj("$", Obj("data", Num(7)))}
NavPaths ==
    {<<>>, <<"data">>, <<"$">>, <<"$", "data">>, <<"items">>, <<"missing">>,
     <<"data", "items">>, <<"$", "data", "items">>, <<"data", "missing">>,
     <<"data", "missing", "items">>, <<"missing", "data">>, <<"data", "data">>}

InitNavigate ==
    /\ QueueNew /\ CallIdle /\ TransformIdle /\ ModelIdle /\ SchemaIdle /\ ApiIdle /\ LlmIdle
    /\ document \in Documents
    /\ dataPath \in NavPaths
    /\ fileNav = NotNavigatedFile
    /\ callNav = NotNavigatedCall

NextNavigate ==
    \/ ProcessFileNavigate
    \/ CallEndpointNavigate

SpecNavigate == InitNavigate /\ [][NextNavigate]_vars

\* the property k is present on x, whatever its value
Has(x, k) == x.t = "obj" /\ x.v.key = k
\* the value at the longest prefix of the path that resolves from x, `$` skipped
RECURSIVE LongestPrefixValue(_, _)
LongestPrefixValue(x, parts) ==
    IF Len(parts) = 0 THEN x
    ELSE IF Head(parts) = "$" THEN LongestPrefixValue(x, Tail(parts))
    ELSE IF Has(x, Head(parts)) THEN LongestPrefixValue(Get(x, Head(parts)), Tail(parts))
    ELSE x

\* C31: the value callEndpoint extracts is the value at the longest resolvable
\* prefix of the dataPath, walking from the response root and skipping `$`:
\* the walk stops at the first segment missing on the current value.
C31_LongestPrefix ==
    callNav.kind = "value" => callNav.value = LongestPrefixValue(document, dataPath)

\* C35: processFile's navigation and callEndpoint's navigation give the same
\* outcome on every document and every dataPath.
C35_SameNavigation ==
    (fileNav.kind # "none" /\ callNav.kind # "none") =>
        /\ fileNav.kind = callNav.kind
        /\ fileNav.value = callNav.value

\* the string begins, after leading whitespace and whatever its case, with
\* `<!doctype html` or `<html`
BeginsWithHtml(cs) ==
    \/ StartsWith(ToLowerCase(TrimStart(cs)), DoctypePrefix)
    \/ StartsWith(ToLowerCase(TrimStart(cs)), HtmlPrefix)
\* the response received last was rejected as HTML: nothing of it was extracted
\* or accumulated, and the call ended there
RejectedAsHtml ==
    /\ pc = "threw"
    /\ outcome.error = "HtmlInsteadOfJson"
    /\ Len(pages) = Len(requests) - 1
    /\ \A i \in 1..Len(pages) : pages[i] # response.data
    /\ \A i \in 1..Len(allResults) : allResults[i] # response.data

\* C32 as stated: a response with an accepted status whose body is a string
\* that begins, after leading whitespace and case-insensitively, with
\* `<!doctype html` or `<html` makes callEndpoint throw 'HTML instead of JSON';
\* the body is never extracted, accumulated or returned, and no further
\* request is issued.
C32_Original ==
    (response.status \in {200, 201, 204} /\ response.data.t = "str"
        /\ BeginsWithHtml(response.data.v)) => RejectedAsHtml
\* C32, amended: the same for a body whose first 100 characters begin, after
\* leading whitespace and case-insensitively, with `<!doctype html` or `<html`.
C32_Amended ==
    (response.status \in {200, 201, 204} /\ response.data.t = "str"
        /\ BeginsWithHtml(Slice(response.data.v, 100))) => RejectedAsHtml
C32_Witness ==
    /\ response = [status |-> 200, data |-> HtmlDocument]
    /\ Len(requests) > 1
    /\ RejectedAsHtml

(***************************************************************************)
(* The LLM configuration: createLLMClient and getModelName                 *)
(***************************************************************************)
\* a || b on environment values
OrValue(a, b) == IF Truthy(a) THEN a ELSE b

TrueString == <<"t", "r", "u", "e">>
OpenRouterUrl == <<"https://openrouter.ai/api/v1">>
Sonnet == <<"a", "n", "t", "h", "r", "o", "p", "i", "c", "/", "s", "o", "n", "n", "e", "t">>
Haiku == <<"a", "n", "t", "h", "r", "o", "p", "i", "c", "/", "h", "a", "i", "k", "u">>

\* const useOpenRouter = process.env.USE_OPENROUTER === "true", in createLLMClient
UseOpenRouterForClient == env["USE_OPENROUTER"] = Str(TrueString)
\* the same test in getModelName
UseOpenRouterIfTruthy == Truthy(env["USE_OPENROUTER"])
UseOpenRouterForModel == env["USE_OPENROUTER"] = Str(TrueString)

\* the options createLLMClient passes to `new OpenAI(...)`
ClientOptions ==
    IF UseOpenRouterForClient
    THEN [kind |-> "created",
          apiKey |-> env["OPENROUTER_API_KEY"],
          baseURL |-> OrValue(env["OPENROUTER_API_BASE_URL"], Str(OpenRouterUrl)),
          defaultHeaders |-> {<<"HTTP-Referer", "https://superglue.ai">>,
                              <<"X-Title", "Superglue App">>}]
    ELSE [kind |-> "created",
          apiKey |-> env["OPENAI_API_KEY"],
          baseURL |-> env["OPENAI_API_BASE_URL"],
          defaultHeaders |-> {}]

\* what getModelName(schemaGeneration) returns
ModelNameForAnyCall(schemaGeneration) ==
    IF UseOpenRouterForModel
    THEN OrValue(env["OPENROUTER_SCHEMA_MODEL"],
                 OrValue(env["OPENROUTER_MODEL"], Str(OpenRouterGpt4o)))
    ELSE OrValue(env["SCHEMA_GENERATION_MODEL"], env["OPENAI_MODEL"])
ModelNameFor(schemaGeneration) ==
    IF UseOpenRouterForModel
    THEN IF schemaGeneration
         THEN OrValue(env["OPENROUTER_SCHEMA_MODEL"],
                      OrValue(env["OPENROUTER_MODEL"], Str(OpenRouterGpt4o)))
         ELSE OrValue(env["OPENROUTER_MODEL"], Str(OpenRouterGpt4o))
    ELSE IF schemaGeneration
         THEN OrValue(env["SCHEMA_GENERATION_MODEL"], env["OPENAI_MODEL"])
         ELSE env["OPENAI_MODEL"]

CreateLLMClient ==
    /\ llmClient.kind = "none"
    /\ llmClient' = ClientOptions
    /\ UNCHANGED <<env, chosenModel>>
    /\ UNCHANGED <<queueVars, callVars, transformVars, modelName, schemaVars, apiVars, navVars>>

GetModelName(schemaGeneration) ==
    /\ chosenModel.kind = "none"
    /\ chosenModel' = [kind |-> "returned", schemaGeneration |-> schemaGeneration,
                       name |-> ModelNameFor(schemaGeneration)]
    /\ UNCHANGED <<env, llmClient>>
    /\ UNCHANGED <<queueVars, callVars, transformVars, modelName, schemaVars, apiVars, navVars>>

GetModelNameStep == \E schemaGeneration \in BOOLEAN : GetModelName(schemaGeneration)

\* the environments explored: every variable unset, empty or set
Unset == Undefined
Empty == Str(<<>>)
UseOpenRouterValues ==
    {Unset, Empty, Str(TrueString), Str(<<"f", "a", "l", "s", "e">>),
     Str(<<"T", "R", "U", "E">>), Str(<<"1">>), Str(<<"t", "r", "u", "e", " ">>)}
Environments ==
    {[USE_OPENROUTER |-> u,
      OPENAI_API_KEY |-> Str(<<"sk-openai">>),
      OPENAI_API_BASE_URL |-> ob,
      OPENAI_MODEL |-> om,
      SCHEMA_GENERATION_MODEL |-> sm,
      OPENROUTER_API_KEY |-> Str(<<"sk-openrouter">>),
      OPENROUTER_API_BASE_URL |-> rb,
      OPENROUTER_MODEL |-> rm,
      OPENROUTER_SCHEMA_MODEL |-> rs] :
        u \in UseOpenRouterValues,
        ob \in {Unset, Str(<<"https://openai.example/v1">>)},
        om \in {Unset, Empty, Str(Gpt4Turbo)},
        sm \in {Unset, Empty, Str(O3Mini)},
        rb \in {Unset, Empty, Str(<<"https://openrouter.example/v1">>)},
        rm \in {Unset, Empty, Str(Sonnet)},
        rs \in {Unset, Empty, Str(Haiku)}}

InitLlm ==
    /\ QueueNew /\ CallIdle /\ TransformIdle /\ ModelIdle /\ SchemaIdle /\ ApiIdle /\ NavIdle
    /\ env \in Environments
    /\ llmClient = [kind |-> "none", apiKey |-> Undefined, baseURL |-> Undefined,
                    defaultHeaders |-> {}]
    /\ chosenModel = [kind |-> "none", schemaGeneration |-> FALSE, name |-> Undefined]

NextLlm ==
    \/ CreateLLMClient
    \/ GetModelNameStep

SpecLlm == InitLlm /\ [][NextLlm]_vars

\* the variable is set: present and not the empty string
IsSet(v) == v.t = "str" /\ Len(v.v) > 0

\* C33: getModelName(schemaGeneration) returns, under OpenRouter,
\* OPENROUTER_SCHEMA_MODEL if set (schema generation only), else
\* OPENROUTER_MODEL if set, else openai/gpt-4o; under OpenAI,
\* SCHEMA_GENERATION_MODEL if set (schema generation only), else OPENAI_MODEL.
\* An empty string counts as not set.
C33_ModelFallbacks ==
    chosenModel.kind = "returned" =>
        chosenModel.name =
            IF env["USE_OPENROUTER"] = Str(TrueString)
            THEN IF chosenModel.schemaGeneration /\ IsSet(env["OPENROUTER_SCHEMA_MODEL"])
                 THEN env["OPENROUTER_SCHEMA_MODEL"]
                 ELSE IF IsSet(env["OPENROUTER_MODEL"])
                      THEN env["OPENROUTER_MODEL"]
                      ELSE Str(OpenRouterGpt4o)
            ELSE IF chosenModel.schemaGeneration /\ IsSet(env["SCHEMA_GENERATION_MODEL"])
                 THEN env["SCHEMA_GENERATION_MODEL"]
                 ELSE env["OPENAI_MODEL"]
\* a non-schema call with both schema models configured got the default model
C33_Witness ==
    /\ chosenModel.kind = "returned"
    /\ ~chosenModel.schemaGeneration
    /\ env["USE_OPENROUTER"] = Str(TrueString)
    /\ env["OPENROUTER_SCHEMA_MODEL"] = Str(Haiku)
    /\ env["OPENROUTER_MODEL"] = Empty
    /\ chosenModel.name = Str(OpenRouterGpt4o)

\* the provider a client and a model name belong to, read off their values
ClientIsOpenRouter ==
    /\ llmClient.apiKey = env["OPENROUTER_API_KEY"]
    /\ llmClient.baseURL = IF IsSet(env["OPENROUTER_API_BASE_URL"])
                           THEN env["OPENROUTER_API_BASE_URL"]
                           ELSE Str(OpenRouterUrl)
    /\ {h[1] : h \in llmClient.defaultHeaders} = {"HTTP-Referer", "X-Title"}
ClientIsOpenAI ==
    /\ llmClient.apiKey = env["OPENAI_API_KEY"]
    /\ llmClient.baseURL = env["OPENAI_API_BASE_URL"]
    /\ llmClient.defaultHeaders = {}
ModelIsOpenRouter ==
    /\ IsSet(chosenModel.name)
    /\ chosenModel.name \in {env["OPENROUTER_SCHEMA_MODEL"], env["OPENROUTER_MODEL"],
                             Str(OpenRouterGpt4o)}
ModelIsOpenAI ==
    chosenModel.name \in {env["SCHEMA_GENERATION_MODEL"], env["OPENAI_MODEL"]}

\* C34: createLLMClient and getModelName both select OpenRouter exactly when
\* USE_OPENROUTER is the string "true" and OpenAI for every other value, so
\* a client and a model name obtained under one environment are of the same
\* provider.
C34_ProvidersAgree ==
    /\ llmClient.kind = "created" =>
          IF env["USE_OPENROUTER"] = Str(TrueString)
          THEN ClientIsOpenRouter /\ ~ClientIsOpenAI
          ELSE ClientIsOpenAI /\ ~ClientIsOpenRouter
    /\ chosenModel.kind = "returned" =>
          IF env["USE_OPENROUTER"] = Str(TrueString)
          THEN ModelIsOpenRouter /\ ~ModelIsOpenAI
          ELSE ModelIsOpenAI /\ ~ModelIsOpenRouter
    /\ (llmClient.kind = "created" /\ chosenModel.kind = "returned") =>
          (ClientIsOpenRouter <=> ModelIsOpenRouter)
\* USE_OPENROUTER is "false": an OpenAI client and an OpenAI model
C34_Witness ==
    /\ llmClient.kind = "created"
    /\ chosenModel.kind = "returned"
    /\ env["USE_OPENROUTER"] = Str(<<"f", "a", "l", "s", "e">>)
    /\ env["OPENROUTER_MODEL"] = Str(Sonnet)
    /\ ClientIsOpenAI
    /\ chosenModel.name = env["OPENAI_MODEL"]

\* C36: if every task eventually settles, every job accepted by enqueue is
\* eventually executed: a job is never left in the queue while no worker loop
\* is running, and once the queue has drained the worker is idle, so that the
\* next accepted enqueue starts its task at once.
AcceptedCall(k) == IF Len(calls) >= k THEN calls[k].accepted ELSE FALSE
TaskStarted(k) == \E i \in 1..Len(started) : started[i] = k
C36_NoLostWakeup ==
    /\ Len(queue) > 0 => \E w \in workers : TRUE
    /\ workers = {} => ~isProcessing
C36_IdleWorkerRestarts ==
    (CallMade /\ LastCall.accepted /\ workers = {}) =>
        /\ started' = Append(started, LastCall.task)
        /\ \E w \in workers' : w.st = "pending" /\ w.job.task = LastCall.task
C36_EveryAcceptedJobRuns ==
    /\ [](C36_NoLostWakeup)
    /\ [][C36_IdleWorkerRestarts]_vars
    /\ \A k \in 1..MaxEnqueues : AcceptedCall(k) ~> TaskStarted(k)
\* the worker went idle after the only job and was started again by the next
\* enqueue (of the same id, accepted because the worker had removed it)
C36_Witness ==
    /\ Len(calls) = 2
    /\ calls[1].accepted /\ calls[2].accepted
    /\ calls[1].id = calls[2].id
    /\ started = <<1, 2>>
    /\ isProcessing
    /\ \E w \in workers : w.st = "pending" /\ w.job.task = 2

NoTwoQueuedWithSameId ==
    \A i, k \in 1..Len(queue) : queue[i].id = queue[k].id => i = k

\* C37 as stated: in every reachable state jobSet is exactly the set of the
\* ids of the queued jobs plus the id of the job whose task is executing, no
\* two queued jobs have the same id, and isProcessing is true whenever the
\* queue is non-empty or a task is executing.
C37_Original ==
    /\ jobSet = {j.id : j \in QueuedJobs \cup Executing}
    /\ NoTwoQueuedWithSameId
    /\ (Len(queue) > 0 \/ Executing # {}) => isProcessing
\* C37, amended: the same with the job the worker holds in place of the job
\* that is executing: the job taken from the queue whose task is running, or
\* has settled while the worker has not resumed yet.
C37_Amended ==
    /\ jobSet = {j.id : j \in QueuedJobs \cup HeldJobs}
    /\ NoTwoQueuedWithSameId
    /\ Cardinality(jobSet) = Len(queue) + Cardinality(HeldJobs)
    /\ (Len(queue) > 0 \/ HeldJobs # {}) => isProcessing
\* a task has settled, its worker has not resumed, and two jobs wait behind it
C37_Witness ==
    /\ Len(queue) = 2
    /\ Executing = {}
    /\ \E w \in workers : w.st = "rejected" /\ w.job.id \in jobSet
    /\ Cardinality(jobSet) = 3

\* the names of the pagination variables of the endpoint's pagination type
PaginationKeys ==
    CASE endpoint.pagination.type = "PAGE_BASED" -> {"page", "limit"}
      [] endpoint.pagination.type = "OFFSET_BASED" -> {"offset", "limit"}
      [] OTHER -> {}

\* C38: in each iteration the variable map of the request has, for a key of
\* the credentials, the credentials' value; for another key of the payload,
\* the payload's value; and only for the remaining keys a pagination value.
C38_Precedence ==
    \A k \in 1..Len(requests) :
        /\ DOMAIN requests[k].vars =
              DOMAIN credentials \cup DOMAIN payload \cup PaginationKeys
        /\ \A key \in DOMAIN requests[k].vars :
              IF key \in DOMAIN credentials
              THEN requests[k].vars[key] = credentials[key]
              ELSE IF key \in DOMAIN payload
              THEN requests[k].vars[key] = payload[key]
              ELSE requests[k].vars[key].from = "pagination"
\* a second iteration with a key shared by payload and credentials, a payload
\* key named limit and a page number from the pagination
C38_Witness ==
    /\ Len(requests) >= 2
    /\ "id" \in DOMAIN payload \cap DOMAIN credentials
    /\ payload["id"] # credentials["id"]
    /\ requests[2].vars["id"] = credentials["id"]
    /\ requests[2].vars["limit"] = payload["limit"]
    /\ requests[2].vars["page"] = Val("pagination", 2)

\* C39: generateMapping never rejects: whichever step of an attempt fails, on
\* the first attempt or a later one, the failure is retried or turned into a
\* null result.
C39_NeverRejects ==
    Len(attempts) > 0 => result.kind # "rejected"

\* C40: whatever the pagination setting, each request issued for a config
\* whose urlPath, headers, query parameters or body reference {page}, {offset}
\* or {limit} has that placeholder bound in the variable map of its iteration.
C40_ReservedBound ==
    \A k \in 1..Len(requests) :
        \A name \in {"page", "offset", "limit"} :
            name \in Names(endpoint.urlPath) \cup Names(endpoint.headers)
                        \cup Names(endpoint.queryParams) \cup Names(endpoint.body.vars)
            => name \in DOMAIN requests[k].vars

====
